---- MODULE Spec2Model ----
(***************************************************************************)
(* Exam session lifecycle of ASM-LAB-SERVER: the login-time Entry Gate     *)
(* (routes/auth.rs), the Countdown Notifier (routes/classroom.rs,          *)
(* classroom_events), the Completion Handler (finish_exam), the roster     *)
(* operations and the account operations, over the relational store        *)
(* (tables accounts, classrooms, users).                                   *)
(*                                                                         *)
(* A request is a task.  A task moves at each `.await` of its handler: one *)
(* step is one database statement or one exchange with the judge, together *)
(* with the code that follows it up to the next `.await`.  Steps of other  *)
(* tasks, and the clock, run in between.                                   *)
(*                                                                         *)
(* Time is counted in whole seconds.  Option<T> is a sequence of length 0  *)
(* (None) or 1 (Some).  An i64 / u64 is kept as its 64-bit pattern in four *)
(* 16-bit limbs, least significant first, so that `as u64` and the         *)
(* wrapping of `* 60` are computed as the machine computes them.           *)
(***************************************************************************)
EXTENDS Integers, Sequences, FiniteSets, TLC

(***************************************************************************)
(* Bounds of the model.                                                    *)
(***************************************************************************)
\* last clock value at which a request (login, finish, roster, open) arrives
MaxRequestTime == 3
\* the bounds of the admission window the gate is checked with
WinStart == 1
WinEnd == 2
\* seconds the clock may run past the latest deadline
Slack == 2

(***************************************************************************)
(* Program constants.                                                      *)
(***************************************************************************)
\* Duration::from_secs(classroom.time_limit as u64 * 60)
SecsPerMinute == 60
\* tokio::time::sleep(Duration::from_secs(1))
TickSecs == 1

Limb == 2^16
\* the clock runs until the deadline of a one-minute exam has passed
MaxTime == MaxRequestTime + SecsPerMinute + Slack

(***************************************************************************)
(* Option<T>                                                               *)
(***************************************************************************)
None == << >>
Some(x) == << x >>
IsSome(o) == Len(o) = 1
IsNone(o) == Len(o) = 0
\* Option::unwrap_or
UnwrapOr(o, d) == IF IsSome(o) THEN o[1] ELSE d

(***************************************************************************)
(* 64-bit integers as limbs.                                               *)
(***************************************************************************)
\* the i64 bit pattern of a small non-negative number
I64(n) == << n % Limb, (n \div Limb) % Limb, 0, 0 >>
\* the i64 bit pattern of -1
MinusOne == << Limb - 1, Limb - 1, Limb - 1, Limb - 1 >>
\* 307445734561825861 = 0x0444444444444445 = ceil(2^64 / 60)
WrapOne == << 17477, 17476, 17476, 1092 >>
\* 1229783075085084721 = 0x1111_1130_ED3B_E831: * 60 wraps to 8210266876796,
\* 3 s below the last second chrono's DateTime holds
WrapNearMax == << 59441, 60731, 4400, 4369 >>
IsNegative(x) == x[4] >= Limb \div 2

\* classroom.time_limit as u64 * 60: the product modulo 2^64, and whether it
\* left the 64 bits (the overflow a build with overflow checks panics on)
MulU64(x, k) ==
    LET p1 == x[1] * k
        p2 == x[2] * k + (p1 \div Limb)
        p3 == x[3] * k + (p2 \div Limb)
        p4 == x[4] * k + (p3 \div Limb)
    IN  [ val |-> << p1 % Limb, p2 % Limb, p3 % Limb, p4 % Limb >>,
          overflow |-> (p4 \div Limb) > 0 ]

\* x + n for an unsigned 64-bit pattern x and a small number n, and whether
\* the sum left the 64 bits
AddU64(x, n) ==
    LET s1 == x[1] + n
        s2 == x[2] + (s1 \div Limb)
        s3 == x[3] + (s2 \div Limb)
        s4 == x[4] + (s3 \div Limb)
    IN  [ val |-> << s1 % Limb, s2 % Limb, s3 % Limb, s4 % Limb >>,
          overflow |-> (s4 \div Limb) > 0 ]

\* x <= y for two unsigned 64-bit patterns
LimbLeq(x, y) ==
    IF x[4] # y[4] THEN x[4] < y[4]
    ELSE IF x[3] # y[3] THEN x[3] < y[3]
    ELSE IF x[2] # y[2] THEN x[2] < y[2]
    ELSE x[1] <= y[1]

\* 8210266876799 s = 0x0777_9A0A_6B7F: the last second chrono's DateTime holds
ChronoMaxSecs == << 27519, 39434, 1911, 0 >>

(***************************************************************************)
(* The store and the requests of the model.                                *)
(***************************************************************************)
\* npm values a login carries ("" is a blank npm; "z" is enrolled nowhere)
LoginNpms == {"a", "z", ""}
AccountNpms == LoginNpms \ {""}
\* time_limit values (minutes): 0, 1, -1, the least value whose * 60 wraps,
\* and a value whose wrapped * 60 ends 3 s below chrono's last second
TimeLimits == { I64(0), I64(1), MinusOne, WrapOne, WrapNearMax }
\* exam_start and exam_end of a classroom create_classroom has inserted
NoWindow == << None, None >>
\* the values of (exam_start, exam_end) find_classroom_for_npm is checked
\* with: each bound absent or set
Windows == { None, Some(WinStart) } \X { None, Some(WinEnd) }
StreamIds == {1, 2}
\* the requests in flight together
TaskIds == {1, 2}
\* most rows the tables users, classrooms and accounts ever hold (ids are
\* AUTOINCREMENT: the id of a deleted row is not handed out again)
MaxUserRows == 3
MaxClassroomRows == 3
MaxAccountRows == 3

VARIABLES
    now,         \* Utc::now(), seconds
    classrooms,  \* table classrooms: id -> row
    users,       \* table users: id -> row
    accounts,    \* table accounts: id -> row
    streams,     \* the SSE streams of classroom_events
    tasks,       \* the requests in flight, each at one of its awaits
    last         \* the response produced by the last step, if it produced one

vars == << now, classrooms, users, accounts, streams, tasks, last >>
store == << classrooms, users, accounts >>

\* a deleted row of users
Tombstone ==
    [ classroom_id |-> 0, npm |-> "", code |-> "", active |-> FALSE,
      exam_started_at |-> None ]
\* a deleted row of classrooms
NoClassroom ==
    [ id |-> 0, is_exam |-> FALSE, exam_start |-> None, exam_end |-> None,
      time_limit |-> I64(0) ]
\* a deleted row of accounts
NoAccount == [ npm |-> "", role |-> "" ]

\* find_by_id(id).one() returns a row
HasClassroom(cs, cid) == cid \in DOMAIN cs /\ cs[cid].id # 0
HasUser(us, uid) == uid \in DOMAIN us /\ us[uid].classroom_id # 0
HasAccount(acc, aid) == aid \in DOMAIN acc /\ acc[aid].npm # ""

\* the row insert_users / add_user_to_classroom inserts: active takes the
\* column default (true), exam_started_at is NULL
NewUser(cid, npm, code) ==
    [ classroom_id |-> cid, npm |-> npm, code |-> code, active |-> TRUE,
      exam_started_at |-> None ]

NoOutcome == [ kind |-> "none", status |-> 0 ]
NoUserPayload == [ npm |-> None, code |-> None, active |-> None ]
NoClassroomPayload ==
    [ is_exam |-> None, time_limit |-> None, users |-> << >> ]

\* a request: its inputs, the await it is at (pc), what it has read so far
\* (seen: the user row; role: the role it is about to insert), what it has
\* done (sent: judge requests sent) and, once answered, its response
NoTask ==
    [ pc |-> "idle", op |-> "none", cid |-> 0, uid |-> 0, npm |-> "",
      code |-> "", lang |-> 0, flag |-> FALSE, ids |-> {},
      upayload |-> NoUserPayload, cpayload |-> NoClassroomPayload,
      seen |-> Tombstone, role |-> "", t |-> 0, sent |-> 0,
      txn |-> << >>, left |-> << >>,
      body |-> [ source_code |-> "", language_id |-> 0 ],
      outcome |-> NoOutcome, err |-> [ kind |-> "", arg |-> "",
      db |-> [ variant |-> "", text |-> "" ] ], status |-> 0, message |-> "" ]
NoRequest == NoTask

\* a stream of classroom_events: the request between its two SELECTs (st
\* "user"), then the generator (st "open": in the loop, "yielded":
\* suspended at `yield`, "closed": returned None; "dropped").  started and
\* limit are the exam_started_at and the time_limit the request has read,
\* wake the end of the sleep the loop is in
NoStream ==
    [ st |-> "none", cid |-> 0, npm |-> "", started |-> None,
      limit |-> I64(0), end_time |-> I64(0), opened |-> 0, wake |-> 0,
      events |-> << >> ]

\* the store at now = 0: classroom 1 with is_exam in es, its admission
\* window in ws and its time limit in tls, and classroom 2, which is no exam
\* classroom; each classroom has one user, the one of classroom 1 with
\* exam_started_at = t0; acc is the table accounts
StoreAt(es, ws, tls, acc, t0) ==
    /\ now = 0
    /\ \E e \in es, w \in ws, tl \in tls :
          classrooms =
            << [ id |-> 1, is_exam |-> e, exam_start |-> w[1],
                 exam_end |-> w[2], time_limit |-> tl ],
               [ id |-> 2, is_exam |-> FALSE, exam_start |-> None,
                 exam_end |-> None, time_limit |-> I64(0) ] >>
    /\ users =
          << [ classroom_id |-> 1, npm |-> "a", code |-> "p",
               active |-> TRUE, exam_started_at |-> t0 ],
             [ classroom_id |-> 2, npm |-> "b", code |-> "p",
               active |-> TRUE, exam_started_at |-> None ] >>
    /\ accounts = acc
    /\ streams = [ s \in StreamIds |-> NoStream ]
    /\ tasks = [ k \in TaskIds |-> NoTask ]
    /\ last = NoRequest

\* the store as create_classroom leaves it: is_exam and time_limit are the
\* payload's, exam_start and exam_end are NULL (no handler writes them),
\* the users are active and have not logged in, and there is no account
Init == StoreAt(BOOLEAN, { NoWindow }, TimeLimits, << >>, None)

\* the rows of Init with every value of exam_start and exam_end the gate
\* distinguishes: the inputs of the comparison of find_classroom_for_npm,
\* which reads the two columns from the row and is their only user
InitWindow == StoreAt(BOOLEAN, Windows, TimeLimits, << >>, None)

(***************************************************************************)
(* Errors and their responses: error.rs                                    *)
(***************************************************************************)
\* DbErr: the variant and the text its Display prints (sea_orm's
\* #[error(..)] of the variant with the text it carries)
NoDbErr == [ variant |-> "", text |-> "" ]
DbErrOf(variant, title, detail) ==
    [ variant |-> variant, text |-> title \o " Error: " \o detail ]
RecordNotUpdated ==
    [ variant |-> "RecordNotUpdated", text |-> "None of the records are updated" ]
UniqueViolation ==
    DbErrOf("Query", "Query", "UNIQUE constraint failed: accounts.npm")
DbErrs ==
    { DbErrOf("RecordNotFound", "RecordNotFound", "users.id"),
      DbErrOf("Conn", "Connection", "users.id"),
      DbErrOf("Exec", "Execution", "users.id"),
      RecordNotUpdated, UniqueViolation }

\* enum AppError; NoError stands for Ok(..)
NoError == [ kind |-> "", arg |-> "", db |-> NoDbErr ]
ClassroomNotFound == [ kind |-> "ClassroomNotFound", arg |-> "", db |-> NoDbErr ]
UserNotFound == [ kind |-> "UserNotFound", arg |-> "", db |-> NoDbErr ]
BadRequest(m) == [ kind |-> "BadRequest", arg |-> m, db |-> NoDbErr ]
Unauthorized(m) == [ kind |-> "Unauthorized", arg |-> m, db |-> NoDbErr ]
External(m) == [ kind |-> "External", arg |-> m, db |-> NoDbErr ]
\* impl From<DbErr> for AppError (#[from])
Database(e) == [ kind |-> "Database", arg |-> "", db |-> e ]

\* the String of BadRequest, Unauthorized and External
ErrorReasons ==
    { "", "Exam not started", "Not an exam classroom", "Ujian telah berakhir." }
AppErrors ==
    { ClassroomNotFound, UserNotFound }
    \cup { BadRequest(m) : m \in ErrorReasons }
    \cup { Unauthorized(m) : m \in ErrorReasons }
    \cup { External(m) : m \in ErrorReasons }
    \cup { Database(e) : e \in DbErrs }

\* Display of AppError (the #[error(...)] attributes)
DisplayOf(err) ==
    CASE err.kind = "ClassroomNotFound" -> "classroom not found"
      [] err.kind = "UserNotFound" -> "user not found"
      [] err.kind = "BadRequest" -> "invalid request: " \o err.arg
      [] err.kind = "Database" -> "database error: " \o err.db.text
      [] err.kind = "External" -> "external service error: " \o err.arg
      [] err.kind = "Unauthorized" -> "unauthorized: " \o err.arg

\* a response that prints the database error as it prints the others
IntoResponseVerbatim(err) ==
    CASE err.kind \in { "ClassroomNotFound", "UserNotFound" } ->
            [ status |-> 404, message |-> DisplayOf(err) ]
      [] err.kind = "BadRequest" ->
            [ status |-> 400, message |-> DisplayOf(err) ]
      [] err.kind = "Unauthorized" ->
            [ status |-> 401, message |-> DisplayOf(err) ]
      [] err.kind = "Database" ->
            [ status |-> IF err.db.variant = "RecordNotFound"
                         THEN 404 ELSE 500,
              message |-> DisplayOf(err) ]
      [] err.kind = "External" ->
            [ status |-> 502, message |-> DisplayOf(err) ]

\* AppError::into_response: the (status, message) of the response
IntoResponse(err) ==
    CASE err.kind \in { "ClassroomNotFound", "UserNotFound" } ->
            [ status |-> 404, message |-> DisplayOf(err) ]
      [] err.kind = "BadRequest" ->
            [ status |-> 400, message |-> DisplayOf(err) ]
      [] err.kind = "Unauthorized" ->
            [ status |-> 401, message |-> DisplayOf(err) ]
      [] err.kind = "Database" ->
            [ status |-> IF err.db.variant = "RecordNotFound"
                         THEN 404 ELSE 500,
              message |-> "internal server error" ]
      [] err.kind = "External" ->
            [ status |-> 502, message |-> DisplayOf(err) ]

\* the response of task r: Ok with the handler's status code, or Err(err)
\* through into_response
Answer(r, code, err) ==
    IF err = NoError
    THEN [ r EXCEPT !.pc = "done", !.err = NoError, !.status = code,
                    !.message = "" ]
    ELSE [ r EXCEPT !.pc = "done", !.err = err,
                    !.status = IntoResponse(err).status,
                    !.message = IntoResponse(err).message ]

\* a request arrives and takes a free task
Idle(k) == tasks[k].pc = "idle" /\ now <= MaxRequestTime
\* task k moves on to its next await; no response leaves in this step
Goto(k, r) == tasks' = [ tasks EXCEPT ![k] = r ] /\ last' = NoRequest
\* task k returns Ok with the status code, or Err(err)
Return(k, r, code, err) ==
    /\ tasks' = [ tasks EXCEPT ![k] = NoTask ]
    /\ last' = Answer(r, code, err)

\* a handler returns Err(err): the response is built from the error
Respond(err) ==
    /\ now <= MaxRequestTime
    /\ last' = Answer([ NoTask EXCEPT !.op = "error" ], 0, err)
    /\ UNCHANGED << now, classrooms, users, accounts, streams, tasks >>

(***************************************************************************)
(* Entry Gate: routes/auth.rs                                              *)
(***************************************************************************)
Inactive == "Akun ini tidak aktif."
NotStarted == "Ujian belum dimulai."
Ended == "Ujian telah berakhir."

\* a gate that applies the window to every classroom, exam or not
GateCheckAnyClassroom(u, c, t) ==
    IF ~u.active THEN Inactive
    ELSE IF IsSome(c.exam_start) /\ IsSome(c.exam_end)
            /\ t < c.exam_start[1] THEN NotStarted
    ELSE IF IsSome(c.exam_start) /\ IsSome(c.exam_end)
            /\ t > c.exam_end[1] THEN Ended
    ELSE ""

\* a gate that does not look at the active flag
GateCheckNoActive(u, c, t) ==
    IF c.is_exam /\ IsSome(c.exam_start) /\ IsSome(c.exam_end)
       /\ t < c.exam_start[1] THEN NotStarted
    ELSE IF c.is_exam /\ IsSome(c.exam_start) /\ IsSome(c.exam_end)
            /\ t > c.exam_end[1] THEN Ended
    ELSE ""

\* a gate whose window excludes its two bounds
GateCheckExclusive(u, c, t) ==
    IF ~u.active THEN Inactive
    ELSE IF c.is_exam /\ IsSome(c.exam_start) /\ IsSome(c.exam_end)
            /\ t <= c.exam_start[1] THEN NotStarted
    ELSE IF c.is_exam /\ IsSome(c.exam_start) /\ IsSome(c.exam_end)
            /\ t >= c.exam_end[1] THEN Ended
    ELSE ""

\* a gate that gives one reason for both sides of the window
GateCheckOneReason(u, c, t) ==
    IF ~u.active THEN Inactive
    ELSE IF c.is_exam /\ IsSome(c.exam_start) /\ IsSome(c.exam_end)
            /\ ( t < c.exam_start[1] \/ t > c.exam_end[1] ) THEN NotStarted
    ELSE ""

\* the checks of find_classroom_for_npm on the row and the classroom it has
\* read, at time t: the message of the Unauthorized it returns, or ""
GateCheck(u, c, t) ==
    IF ~u.active THEN Inactive
    ELSE IF c.is_exam /\ IsSome(c.exam_start) /\ IsSome(c.exam_end)
            /\ t < c.exam_start[1] THEN NotStarted
    ELSE IF c.is_exam /\ IsSome(c.exam_start) /\ IsSome(c.exam_end)
            /\ t > c.exam_end[1] THEN Ended
    ELSE ""

\* a gate that stamps exam_started_at at every admitted login
GateWriteAlways(u, c, t) == c.is_exam

\* `if user_model.exam_started_at.is_none()` under `if classroom.is_exam`:
\* the gate goes on to the UPDATE of exam_started_at
GateWrite(u, c, t) == c.is_exam /\ IsNone(u.exam_started_at)

\* the rows `.filter(Npm.eq(npm)).one()` may return (0 when there is none)
RowsOfNpm(us, npm) ==
    LET m == { u \in DOMAIN us : HasUser(us, u) /\ us[u].npm = npm }
    IN  IF m = {} THEN {0} ELSE m

\* the account `.filter(Npm.eq(npm)).one()` returns (0 when there is none)
AccountOfNpm(acc, npm) ==
    LET m == { a \in DOMAIN acc : acc[a].npm = npm }
    IN  IF m = {} THEN 0 ELSE CHOOSE a \in m : TRUE

\* `.filter(Role.eq("admin")).count() > 0`
AdminExists(acc) == \E a \in DOMAIN acc : acc[a].role = "admin"

\* INSERT INTO accounts: the next id; npm is UNIQUE
InsertAccount(acc, npm, role) == Append(acc, [ npm |-> npm, role |-> role ])

\* POST /api/auth/login up to its second await: the SELECT of the account
LoginFindAt(k, npm, as_admin) ==
    /\ tasks[k].pc = "idle"
    /\ UNCHANGED << now, classrooms, users, accounts, streams >>
    /\ LET r == [ NoTask EXCEPT !.op = "login", !.npm = npm,
                                !.flag = as_admin ]
       IN  IF npm = ""
           THEN Return(k, r, 0, BadRequest("NPM wajib diisi"))
           ELSE IF AccountOfNpm(accounts, npm) # 0
           THEN Goto(k, [ r EXCEPT !.pc = "gate" ])
           ELSE Goto(k, [ r EXCEPT !.pc = "count" ])

\* a login that arrives while requests arrive
LoginFind(k, npm, as_admin) ==
    /\ now <= MaxRequestTime
    /\ LoginFindAt(k, npm, as_admin)

\* the count of admins, and the role the new account takes
LoginCount(k) ==
    /\ tasks[k].pc = "count"
    /\ UNCHANGED << now, classrooms, users, accounts, streams >>
    /\ LET r == tasks[k]
       IN  IF r.flag /\ AdminExists(accounts)
           THEN Return(k, r, 0, BadRequest(
                  "Admin sudah terdaftar, silakan hubungi admin yang ada."))
           ELSE Goto(k, [ r EXCEPT !.pc = "insert",
                    !.role = IF r.flag /\ ~AdminExists(accounts)
                             THEN "admin" ELSE "user" ])

\* the INSERT of the account: it fails on the UNIQUE index of npm when a row
\* of this npm has been inserted since the SELECT
LoginInsert(k) ==
    /\ tasks[k].pc = "insert"
    /\ UNCHANGED << now, classrooms, users, streams >>
    /\ LET r == tasks[k]
       IN  IF AccountOfNpm(accounts, r.npm) # 0
           THEN /\ UNCHANGED accounts
                /\ Return(k, r, 0, Database(UniqueViolation))
           ELSE /\ Len(accounts) < MaxAccountRows
                /\ accounts' = InsertAccount(accounts, r.npm, r.role)
                /\ Goto(k, [ r EXCEPT !.pc = "gate" ])

\* find_classroom_for_npm up to its UPDATE: the SELECT of the user with its
\* classroom, the checks, and Utc::now()
GateRead(k) ==
    /\ tasks[k].pc = "gate"
    /\ UNCHANGED << now, classrooms, users, accounts, streams >>
    /\ \E uid \in RowsOfNpm(users, tasks[k].npm) :
          IF uid = 0
          THEN Return(k, tasks[k], 200, NoError)
          ELSE LET u == users[uid]
                   c == classrooms[u.classroom_id]
                   r == [ tasks[k] EXCEPT !.uid = uid, !.seen = u,
                                          !.cid = u.classroom_id, !.t = now ]
               IN  IF GateCheck(u, c, now) # ""
                   THEN Return(k, r, 0, Unauthorized(GateCheck(u, c, now)))
                   ELSE IF GateWrite(u, c, now)
                   THEN Goto(k, [ r EXCEPT !.pc = "stamp" ])
                   ELSE Return(k, r, 200, NoError)

\* user_am.update(db): UPDATE users SET exam_started_at = now WHERE id; it
\* fails with RecordNotUpdated when the row has been deleted
GateStamp(k) ==
    /\ tasks[k].pc = "stamp"
    /\ UNCHANGED << now, classrooms, accounts, streams >>
    /\ LET r == tasks[k]
       IN  IF HasUser(users, r.uid)
           THEN /\ users' = [ users EXCEPT ![r.uid].exam_started_at =
                                Some(r.t) ]
                /\ Return(k, r, 200, NoError)
           ELSE /\ UNCHANGED users
                /\ Return(k, r, 0, Database(RecordNotUpdated))

\* the clock moves on by one second; nothing waits for it and it waits for
\* nothing (limit: the last clock value of the specification)
Advance(limit) ==
    /\ now < limit
    /\ now' = now + TickSecs
    /\ last' = NoRequest
    /\ UNCHANGED << classrooms, users, accounts, streams, tasks >>

(***************************************************************************)
(* Countdown Notifier: routes/classroom.rs, classroom_events               *)
(***************************************************************************)
\* a lookup that forgets the classroom filter
RowsOfNpmAnyClassroom(us, cid, npm) ==
    LET m == { u \in DOMAIN us : HasUser(us, u) /\ us[u].npm = npm }
    IN  IF m = {} THEN {0} ELSE m

\* the rows find_classroom_and_user / finish_exam may resolve (0: none)
RowsOfClassroomNpm(us, cid, npm) ==
    LET m == { u \in DOMAIN us :
                 HasUser(us, u) /\ us[u].npm = npm /\ us[u].classroom_id = cid }
    IN  IF m = {} THEN {0} ELSE m

\* end_time = exam_started_at + Duration::from_secs(time_limit as u64 * 60).
\* checked: the build panics on arithmetic overflow (debug), else it wraps.
\* `DateTime + Duration` panics when the sum is past chrono's last second.
EndTime(t0, tl, checked) ==
    LET m == MulU64(tl, SecsPerMinute)
        e == AddU64(m.val, t0)
    IN  IF checked /\ m.overflow
        THEN [ panic |-> TRUE, end_time |-> I64(0) ]
        ELSE IF e.overflow \/ ~LimbLeq(e.val, ChronoMaxSecs)
        THEN [ panic |-> TRUE, end_time |-> I64(0) ]
        ELSE [ panic |-> FALSE, end_time |-> e.val ]

\* a notifier that does not ask for a recorded start
EventsCheckNoStart(found, c, started) ==
    IF ~found THEN ClassroomNotFound
    ELSE IF ~c.is_exam THEN BadRequest("Not an exam classroom")
    ELSE NoError

\* classroom_events between find_classroom_and_user and the deadline: the
\* error it returns for the classroom row it has read (found: there is one)
\* and the exam_started_at of the user row it has read
EventsCheck(found, c, started) ==
    IF ~found THEN ClassroomNotFound
    ELSE IF ~c.is_exam THEN BadRequest("Not an exam classroom")
    ELSE IF IsNone(started) THEN BadRequest("Exam not started")
    ELSE NoError

\* npm values of GET /api/classrooms/{id}/events
EventNpms == {"a", "z"}

\* the request of a stream, as a task record
EventsRequest(st) ==
    [ NoTask EXCEPT !.op = "events", !.cid = st.cid, !.npm = st.npm,
                    !.seen = [ Tombstone EXCEPT !.exam_started_at = st.started ] ]

\* find_classroom_and_user, first SELECT: the user row of (classroom, npm)
EventsFindUser(s, cid, npm) ==
    /\ streams[s].st = "none"
    /\ now <= MaxRequestTime
    /\ UNCHANGED << now, classrooms, users, accounts, tasks >>
    /\ \E uid \in RowsOfClassroomNpm(users, cid, npm) :
          LET st == [ NoStream EXCEPT !.cid = cid, !.npm = npm ]
          IN  IF uid = 0
              THEN /\ UNCHANGED streams
                   /\ last' = Answer(EventsRequest(st), 0, UserNotFound)
              ELSE /\ streams' = [ streams EXCEPT ![s] =
                         [ st EXCEPT !.st = "user",
                                     !.started = users[uid].exam_started_at ] ]
                   /\ last' = NoRequest

\* a handler that writes the start it has read back to the user row
EventsFindClassroomStamping(s, checked) ==
    /\ streams[s].st = "user"
    /\ UNCHANGED << now, classrooms, accounts, tasks >>
    /\ LET st == streams[s]
           found == HasClassroom(classrooms, st.cid)
           c == IF found THEN classrooms[st.cid] ELSE NoClassroom
           err == EventsCheck(found, c, st.started)
           e == EndTime(UnwrapOr(st.started, 0), c.time_limit, checked)
       IN  IF err # NoError
           THEN /\ streams' = [ streams EXCEPT ![s] = NoStream ]
                /\ last' = Answer(EventsRequest(st), 0, err)
                /\ UNCHANGED users
           ELSE IF e.panic
           THEN /\ streams' = [ streams EXCEPT ![s] = NoStream ]
                /\ last' = [ EventsRequest(st) EXCEPT !.pc = "panicked" ]
                /\ UNCHANGED users
           ELSE /\ streams' = [ streams EXCEPT ![s] =
                      [ st EXCEPT !.st = "open", !.limit = c.time_limit,
                                  !.end_time = e.end_time,
                                  !.opened = now, !.wake = now ] ]
                /\ last' = Answer(EventsRequest(st), 200, NoError)
                /\ users' = [ u \in DOMAIN users |->
                      IF users[u].npm = st.npm /\ users[u].classroom_id = st.cid
                      THEN [ users[u] EXCEPT !.exam_started_at = Some(now) ]
                      ELSE users[u] ]

\* find_classroom_and_user, second SELECT (the classroom row), the two
\* checks, the deadline and `Ok(Sse::new(stream))`
EventsFindClassroom(s, checked) ==
    /\ streams[s].st = "user"
    /\ UNCHANGED << now, classrooms, users, accounts, tasks >>
    /\ LET st == streams[s]
           found == HasClassroom(classrooms, st.cid)
           c == IF found THEN classrooms[st.cid] ELSE NoClassroom
           err == EventsCheck(found, c, st.started)
           e == EndTime(UnwrapOr(st.started, 0), c.time_limit, checked)
       IN  IF err # NoError
           THEN /\ streams' = [ streams EXCEPT ![s] = NoStream ]
                /\ last' = Answer(EventsRequest(st), 0, err)
           ELSE IF e.panic
           THEN /\ streams' = [ streams EXCEPT ![s] = NoStream ]
                /\ last' = [ EventsRequest(st) EXCEPT !.pc = "panicked" ]
           ELSE /\ streams' = [ streams EXCEPT ![s] =
                      [ st EXCEPT !.st = "open", !.limit = c.time_limit,
                                  !.end_time = e.end_time,
                                  !.opened = now, !.wake = now ] ]
                /\ last' = Answer(EventsRequest(st), 200, NoError)

\* t >= end_time
Reached(end_time, t) == LimbLeq(end_time, I64(t))

\* a loop that goes on after the event
LoopBodyNoBreak(st, t) ==
    IF Reached(st.end_time, t)
    THEN [ st EXCEPT !.events = Append(@, [ at |-> t, data |-> "timeup" ]),
                     !.wake = t + TickSecs ]
    ELSE [ st EXCEPT !.wake = t + TickSecs ]

\* a loop that sleeps a minute between two looks at the clock
LoopBodySleepMinute(st, t) ==
    IF Reached(st.end_time, t)
    THEN [ st EXCEPT !.st = "yielded",
                     !.events = Append(@, [ at |-> t, data |-> "timeup" ]) ]
    ELSE [ st EXCEPT !.wake = t + SecsPerMinute ]

\* a loop that takes the deadline from the store at every turn
LoopBodyReread(st, t) ==
    LET c == IF HasClassroom(classrooms, st.cid)
             THEN classrooms[st.cid] ELSE NoClassroom
        e == EndTime(UnwrapOr(st.started, 0), c.time_limit, FALSE).end_time
    IN  IF Reached(e, t)
        THEN [ st EXCEPT !.st = "yielded",
                         !.events = Append(@, [ at |-> t, data |-> "timeup" ]) ]
        ELSE [ st EXCEPT !.wake = t + TickSecs ]

\* one turn of the loop at time t, up to its next suspension: at `yield`
\* with the event out, or in the sleep of one second
LoopBody(st, t) ==
    IF Reached(st.end_time, t)
    THEN [ st EXCEPT !.st = "yielded",
                     !.events = Append(@, [ at |-> t, data |-> "timeup" ]) ]
    ELSE [ st EXCEPT !.wake = t + TickSecs ]

\* the stream is polled when its sleep has ended (at once after its opening)
StreamStep(s) ==
    /\ streams[s].st = "open"
    /\ now >= streams[s].wake
    /\ streams' = [ streams EXCEPT ![s] = LoopBody(@, now) ]
    /\ last' = NoRequest
    /\ UNCHANGED << now, classrooms, users, accounts, tasks >>

\* the stream is polled after its event: `break`, the generator returns None
StreamEnd(s) ==
    /\ streams[s].st = "yielded"
    /\ streams' = [ streams EXCEPT ![s].st = "closed" ]
    /\ last' = NoRequest
    /\ UNCHANGED << now, classrooms, users, accounts, tasks >>

\* a disconnect that lets the loop take one more turn
StreamDropLate(s) ==
    /\ streams[s].st \in { "open", "yielded" }
    /\ streams' = [ streams EXCEPT ![s] =
                      [ @ EXCEPT !.st = "dropped", !.wake = 0,
                          !.events = IF streams[s].st = "open"
                                     THEN LoopBody(streams[s], now).events
                                     ELSE streams[s].events ] ]
    /\ last' = NoRequest
    /\ UNCHANGED << now, classrooms, users, accounts, tasks >>

\* the peer disconnects: the Sse body, with the generator and its Sleep, is
\* dropped (wake 0: no timer is left); what the peer has received stays
\* received
StreamDrop(s) ==
    /\ streams[s].st \in { "open", "yielded" }
    /\ streams' = [ streams EXCEPT ![s] =
                      [ @ EXCEPT !.st = "dropped", !.wake = 0 ] ]
    /\ last' = NoRequest
    /\ UNCHANGED << now, classrooms, users, accounts, tasks >>

(***************************************************************************)
(* Completion Handler: routes/classroom.rs, finish_exam                    *)
(***************************************************************************)
FinishNpms == {"a", "z"}
FinishCodes == {"p", "q"}
\* language_id of a submission
LanguageId == 45
\* what `.send().await` comes to: an error of the transport, or a response
\* with its HTTP status
JudgeOutcomes ==
    { [ kind |-> "transport", status |-> 0 ] }
    \cup [ kind : {"response"}, status : {200, 500} ]

\* StatusCode::is_success
IsSuccess(status) == 200 <= status /\ status <= 299

\* a completion that saves the code and forgets the flag
FinishWriteCodeOnly(u, code) == [ u EXCEPT !.code = code ]

\* user_am.active = Set(false); user_am.code = Set(payload.code)
FinishWrite(u, code) == [ u EXCEPT !.active = FALSE, !.code = code ]

\* a body serialised with every field of the request that is set
JudgeBodyWithNpm(code, lang, npm) ==
    [ source_code |-> code, language_id |-> lang, npm |-> npm ]

\* the body serde_json sends: npm is #[serde(skip_serializing)]
JudgeBody(code, lang, npm) == [ source_code |-> code, language_id |-> lang ]

\* impl From<ReqwestError>: the error of send() or of json()
SendFailed == External("error sending request")
DecodeFailed == External("error decoding response body")

\* the result of the handler once the body of the judge's response has been
\* read (read: text() or json() succeeded): Ok, or the External error
JudgeResult(status, read) ==
    IF ~IsSuccess(status)
    THEN External("status " \o ToString(status) \o " dari Judge0: "
                  \o (IF read THEN "body" ELSE ""))
    ELSE IF ~read THEN DecodeFailed
    ELSE NoError

\* a completion that returns at once for a user who is already inactive
FinishFindGuarded(k, cid, npm, code) ==
    /\ Idle(k)
    /\ UNCHANGED << now, classrooms, users, accounts, streams >>
    /\ \E uid \in RowsOfClassroomNpm(users, cid, npm) :
          LET r == [ NoTask EXCEPT !.op = "finish", !.cid = cid, !.npm = npm,
                                   !.code = code, !.lang = LanguageId,
                                   !.uid = uid ]
          IN  IF uid = 0
              THEN Return(k, r, 0, UserNotFound)
              ELSE IF ~users[uid].active
              THEN Return(k, [ r EXCEPT !.seen = users[uid] ], 200, NoError)
              ELSE Goto(k, [ r EXCEPT !.pc = "update", !.seen = users[uid] ])

\* finish_exam up to its UPDATE: the SELECT of the user row
FinishFind(k, cid, npm, code) ==
    /\ Idle(k)
    /\ UNCHANGED << now, classrooms, users, accounts, streams >>
    /\ \E uid \in RowsOfClassroomNpm(users, cid, npm) :
          LET r == [ NoTask EXCEPT !.op = "finish", !.cid = cid, !.npm = npm,
                                   !.code = code, !.lang = LanguageId,
                                   !.uid = uid ]
          IN  IF uid = 0
              THEN Return(k, r, 0, UserNotFound)
              ELSE Goto(k, [ r EXCEPT !.pc = "update", !.seen = users[uid] ])

\* a completion that goes on to the judge whatever the update returned
FinishUpdateIgnoreError(k) ==
    /\ tasks[k].op = "finish" /\ tasks[k].pc = "update"
    /\ UNCHANGED << now, classrooms, accounts, streams >>
    /\ LET r == tasks[k]
       IN  /\ users' = IF HasUser(users, r.uid)
                       THEN [ users EXCEPT ![r.uid] = FinishWrite(@, r.code) ]
                       ELSE users
           /\ Goto(k, [ r EXCEPT !.pc = "send" ])

\* user_am.update(&state.db).await?: UPDATE users SET active, code WHERE id;
\* RecordNotUpdated when the row has been deleted since the SELECT
FinishUpdate(k) ==
    /\ tasks[k].op = "finish" /\ tasks[k].pc = "update"
    /\ UNCHANGED << now, classrooms, accounts, streams >>
    /\ LET r == tasks[k]
       IN  IF HasUser(users, r.uid)
           THEN /\ users' = [ users EXCEPT ![r.uid] = FinishWrite(@, r.code) ]
                /\ Goto(k, [ r EXCEPT !.pc = "send" ])
           ELSE /\ UNCHANGED users
                /\ Return(k, r, 0, Database(RecordNotUpdated))

\* http_client.post(endpoint).json(..).send(): the request is on its way
JudgeSend(k) ==
    /\ tasks[k].pc = "send"
    /\ UNCHANGED << now, classrooms, users, accounts, streams >>
    /\ Goto(k, [ tasks[k] EXCEPT !.pc = "wait", !.sent = @ + 1,
                   !.body = JudgeBody(tasks[k].code, tasks[k].lang,
                                      tasks[k].npm) ])

\* a handler that undoes its update when the judge has not accepted
JudgeAnswerRollback(k, outcome) ==
    /\ tasks[k].pc = "wait"
    /\ UNCHANGED << now, classrooms, accounts, streams >>
    /\ IF outcome.kind = "transport"
       THEN /\ Return(k, tasks[k], 0, SendFailed)
            /\ UNCHANGED users
       ELSE /\ Goto(k, [ tasks[k] EXCEPT !.pc = "body", !.outcome = outcome ])
            /\ users' = IF ~IsSuccess(outcome.status)
                           /\ HasUser(users, tasks[k].uid)
                        THEN [ users EXCEPT ![tasks[k].uid] = tasks[k].seen ]
                        ELSE users

\* `.send().await?` returns: an error of the transport ends the handler,
\* a response leaves its body to be read
JudgeAnswer(k, outcome) ==
    /\ tasks[k].pc = "wait"
    /\ UNCHANGED << now, classrooms, users, accounts, streams >>
    /\ IF outcome.kind = "transport"
       THEN Return(k, tasks[k], 0, SendFailed)
       ELSE Goto(k, [ tasks[k] EXCEPT !.pc = "body", !.outcome = outcome ])

\* `response.text().await.unwrap_or_default()` of a non-success status, or
\* `response.json().await?`: the handler returns
JudgeBodyRead(k, read) ==
    /\ tasks[k].pc = "body"
    /\ UNCHANGED << now, classrooms, users, accounts, streams >>
    /\ Return(k, tasks[k], 200, JudgeResult(tasks[k].outcome.status, read))

(***************************************************************************)
(* Roster Activation: routes/classroom.rs, update_users_status             *)
(***************************************************************************)
\* user_ids of a roster request (9 is the id of no user)
StatusIdSets == { {}, {1}, {1, 2}, {2, 9} }

\* an update that forgets the classroom filter
UpdateManyAnyClassroom(us, ids, cid, active) ==
    [ u \in DOMAIN us |->
        IF u \in ids /\ HasUser(us, u)
        THEN [ us[u] EXCEPT !.active = active ] ELSE us[u] ]

\* update_many().col_expr(Active, active).filter(Id.is_in(ids))
\*              .filter(ClassroomId.eq(id))
UpdateMany(us, ids, cid, active) ==
    [ u \in DOMAIN us |->
        IF u \in ids /\ us[u].classroom_id = cid
        THEN [ us[u] EXCEPT !.active = active ] ELSE us[u] ]

\* ensure_classroom_exists of update_users_status
StatusEnsure(k, cid, ids, active) ==
    /\ Idle(k)
    /\ UNCHANGED << now, classrooms, users, accounts, streams >>
    /\ LET r == [ NoTask EXCEPT !.op = "status", !.cid = cid, !.ids = ids,
                                !.flag = active ]
       IN  IF HasClassroom(classrooms, cid)
           THEN Goto(k, [ r EXCEPT !.pc = "status" ])
           ELSE Return(k, r, 0, ClassroomNotFound)

\* the UPDATE of update_users_status
StatusUpdate(k) ==
    /\ tasks[k].pc = "status"
    /\ UNCHANGED << now, classrooms, accounts, streams >>
    /\ users' = UpdateMany(users, tasks[k].ids, tasks[k].cid, tasks[k].flag)
    /\ Return(k, tasks[k], 204, NoError)

(***************************************************************************)
(* Users of a classroom: add_user_to_classroom, update_user_in_classroom,  *)
(* delete_user_from_classroom                                              *)
(***************************************************************************)
\* payload of PUT /api/classrooms/{classroom_id}/users/{user_id}: it sets
\* active to false
Deactivate == [ NoUserPayload EXCEPT !.active = Some(FALSE) ]

\* DbErr of an INSERT the database refuses (a foreign key with no row, a
\* NOT NULL column with no value)
InsertRefused == DbErrOf("Query", "Query", "constraint failed")

\* the columns update_user_in_classroom has Set, written over the row
UserWritten(u, payload) ==
    [ u EXCEPT !.npm = UnwrapOr(payload.npm, @),
               !.code = UnwrapOr(payload.code, @),
               !.active = UnwrapOr(payload.active, @) ]

\* ensure_classroom_exists of update_user_in_classroom (op "user_update")
\* and of delete_user_from_classroom (op "user_delete")
UserEnsure(k, op, cid, uid, payload) ==
    /\ Idle(k)
    /\ UNCHANGED << now, classrooms, users, accounts, streams >>
    /\ LET r == [ NoTask EXCEPT !.op = op, !.cid = cid, !.uid = uid,
                                !.upayload = payload ]
       IN  IF HasClassroom(classrooms, cid)
           THEN Goto(k, [ r EXCEPT !.pc = "user" ])
           ELSE Return(k, r, 0, ClassroomNotFound)

\* find_by_id(user_id) and the test of its classroom_id
UserFind(k) ==
    /\ tasks[k].pc = "user"
    /\ UNCHANGED << now, classrooms, users, accounts, streams >>
    /\ LET r == tasks[k]
       IN  IF ~HasUser(users, r.uid) \/ users[r.uid].classroom_id # r.cid
           THEN Return(k, r, 0, UserNotFound)
           ELSE Goto(k, [ r EXCEPT !.seen = users[r.uid],
                    !.pc = IF r.op = "user_update" THEN "write" ELSE "delete" ])

\* user_am.update(): UPDATE users SET <the Set columns> WHERE id
UserWrite(k) ==
    /\ tasks[k].pc = "write"
    /\ UNCHANGED << now, classrooms, accounts, streams >>
    /\ LET r == tasks[k]
       IN  IF HasUser(users, r.uid)
           THEN /\ users' = [ users EXCEPT ![r.uid] =
                                UserWritten(@, r.upayload) ]
                /\ Return(k, r, 200, NoError)
           ELSE /\ UNCHANGED users
                /\ Return(k, r, 0, Database(RecordNotUpdated))

\* delete_by_id(user_id): rows_affected == 0 is UserNotFound
UserDelete(k) ==
    /\ tasks[k].pc = "delete"
    /\ UNCHANGED << now, classrooms, accounts, streams >>
    /\ LET r == tasks[k]
       IN  IF HasUser(users, r.uid)
           THEN /\ users' = [ users EXCEPT ![r.uid] = Tombstone ]
                /\ Return(k, r, 204, NoError)
           ELSE /\ UNCHANGED users
                /\ Return(k, r, 0, UserNotFound)

\* ensure_classroom_exists of add_user_to_classroom
AddUserEnsure(k, cid, npm) ==
    /\ Idle(k)
    /\ UNCHANGED << now, classrooms, users, accounts, streams >>
    /\ LET r == [ NoTask EXCEPT !.op = "user_add", !.cid = cid, !.npm = npm,
                                !.code = "p" ]
       IN  IF HasClassroom(classrooms, cid)
           THEN Goto(k, [ r EXCEPT !.pc = "add" ])
           ELSE Return(k, r, 0, ClassroomNotFound)

\* the INSERT of add_user_to_classroom.  inserted: the database takes a row
\* without a value for active (the column has a default) or refuses it
AddUserInsert(k, inserted) ==
    /\ tasks[k].pc = "add"
    /\ UNCHANGED << now, classrooms, accounts, streams >>
    /\ LET r == tasks[k]
           n == Cardinality(DOMAIN users)
       IN  IF ~HasClassroom(classrooms, r.cid) \/ ~inserted
           THEN /\ UNCHANGED users
                /\ Return(k, r, 0, Database(InsertRefused))
           ELSE /\ n < MaxUserRows
                /\ users' = Append(users, NewUser(r.cid, r.npm, r.code))
                /\ Return(k, [ r EXCEPT !.uid = n + 1 ], 201, NoError)

(***************************************************************************)
(* Classrooms: create_classroom, delete_classroom                          *)
(***************************************************************************)
\* payload of POST /api/classrooms: an exam classroom whose roster is a
\* blank npm and the npm "b"
NewExam ==
    [ NoClassroomPayload EXCEPT !.users = << "", "b" >>,
                                !.is_exam = Some(TRUE) ]

\* the users insert_users goes through: those whose npm is not blank
Named(roster) == SelectSeq(roster, LAMBDA x : x # "")

\* the await a transaction is at once the INSERT of a row is done: the
\* INSERT of the next user, or the commit
AfterInsert(left) == IF left = << >> THEN "commit" ELSE "users"

\* create_classroom, `state.db.begin()`: the transaction is open and the
\* INSERT of the classroom is awaited
ClassroomBegin(k, payload) ==
    /\ Idle(k)
    /\ UNCHANGED << now, classrooms, users, accounts, streams >>
    /\ Goto(k, [ NoTask EXCEPT !.op = "classroom_create",
                               !.pc = "classroom", !.cpayload = payload ])

\* the INSERT of the classroom, in the transaction: the row has its id, and
\* insert_users comes to its first INSERT, or to the commit when no npm of
\* the roster is left by the filter.  Two transactions do not insert a
\* classroom at a time: the second INSERT waits for the first transaction
\* to end.
ClassroomInsert(k) ==
    /\ tasks[k].pc = "classroom"
    /\ \A j \in TaskIds \ {k} : tasks[j].pc \notin { "users", "commit" }
    /\ Len(classrooms) < MaxClassroomRows
    /\ UNCHANGED << now, classrooms, users, accounts, streams >>
    /\ LET r == tasks[k]
           left == Named(r.cpayload.users)
       IN  Goto(k, [ r EXCEPT !.cid = Len(classrooms) + 1, !.left = left,
                              !.pc = AfterInsert(left) ])

\* one INSERT of insert_users, in the transaction; an INSERT the database
\* refuses returns the error and the transaction is dropped uncommitted
ClassroomInsertUser(k, inserted) ==
    /\ tasks[k].pc = "users"
    /\ UNCHANGED << now, classrooms, users, accounts, streams >>
    /\ LET r == tasks[k]
       IN  IF ~inserted
           THEN Return(k, [ r EXCEPT !.txn = << >>, !.left = << >> ], 0,
                       Database(InsertRefused))
           ELSE /\ Len(users) + Len(r.txn) < MaxUserRows
                /\ Goto(k, [ r EXCEPT
                      !.txn = Append(@, NewUser(r.cid, Head(r.left), "p")),
                      !.left = Tail(@),
                      !.pc = AfterInsert(Tail(r.left)) ])

\* `txn.commit()`: the classroom and the users inserted are in the tables
ClassroomCommit(k) ==
    /\ tasks[k].pc = "commit"
    /\ Len(users) + Len(tasks[k].txn) <= MaxUserRows
    /\ UNCHANGED << now, accounts, streams >>
    /\ LET r == tasks[k]
           p == r.cpayload
       IN  /\ classrooms' = Append(classrooms,
                 [ id |-> r.cid,
                   is_exam |-> UnwrapOr(p.is_exam, FALSE),
                   exam_start |-> None, exam_end |-> None,
                   time_limit |-> UnwrapOr(p.time_limit, I64(0)) ])
           /\ users' = users \o r.txn
           /\ Goto(k, [ r EXCEPT !.pc = "reload" ])

\* load_classroom_with_users after the commit, and the response
ClassroomReload(k) ==
    /\ tasks[k].pc = "reload"
    /\ UNCHANGED << now, classrooms, users, accounts, streams >>
    /\ IF HasClassroom(classrooms, tasks[k].cid)
       THEN Return(k, tasks[k], 201, NoError)
       ELSE Return(k, tasks[k], 0, ClassroomNotFound)

(***************************************************************************)
(* update_classroom: declared as PUT /api/classrooms/{id}, mounted by no   *)
(* route of api_router                                                     *)
(***************************************************************************)
NoUpdatePayload == [ is_exam |-> None, time_limit |-> None, users |-> None ]

\* payloads of update_classroom: a roster of the npm "a", the time limit of
\* one minute, is_exam false
UpdatePayloads ==
    { [ NoUpdatePayload EXCEPT !.users = Some(<< "a" >>) ],
      [ NoUpdatePayload EXCEPT !.time_limit = Some(I64(1)) ],
      [ NoUpdatePayload EXCEPT !.is_exam = Some(FALSE) ] }

\* the awaits of a transaction at which it has written
WritingPcs == { "users", "commit", "u_delete", "u_users", "u_commit" }

\* the columns update_classroom has Set, written over the row
ClassroomWritten(c, payload) ==
    [ c EXCEPT !.is_exam = UnwrapOr(payload.is_exam, @),
               !.time_limit = UnwrapOr(payload.time_limit, @) ]

\* the await the transaction of update_classroom is at once an INSERT of a
\* user is done
UpdateAfterInsert(left) == IF left = << >> THEN "u_commit" ELSE "u_users"

\* load_classroom_with_users of update_classroom
UpdateClassroomLoad(k, cid, payload) ==
    /\ Idle(k)
    /\ UNCHANGED << now, classrooms, users, accounts, streams >>
    /\ LET r == [ NoTask EXCEPT !.op = "classroom_update", !.cid = cid,
                                !.cpayload = payload ]
       IN  IF HasClassroom(classrooms, cid)
           THEN Goto(k, [ r EXCEPT !.pc = "u_begin" ])
           ELSE Return(k, r, 0, ClassroomNotFound)

\* `state.db.begin()`
UpdateClassroomBegin(k) ==
    /\ tasks[k].pc = "u_begin"
    /\ UNCHANGED << now, classrooms, users, accounts, streams >>
    /\ Goto(k, [ tasks[k] EXCEPT !.pc = "u_row" ])

\* classroom_am.update(&txn): UPDATE classrooms SET <the Set columns>,
\* updated_at WHERE id, in the transaction; a row that is gone is
\* RecordNotUpdated.  The UPDATE waits while another transaction has
\* written.
UpdateClassroomRow(k) ==
    /\ tasks[k].pc = "u_row"
    /\ \A j \in TaskIds \ {k} : tasks[j].pc \notin WritingPcs
    /\ UNCHANGED << now, classrooms, users, accounts, streams >>
    /\ LET r == tasks[k]
       IN  IF ~HasClassroom(classrooms, r.cid)
           THEN Return(k, r, 0, Database(RecordNotUpdated))
           ELSE Goto(k, [ r EXCEPT !.pc = IF IsSome(r.cpayload.users)
                                          THEN "u_delete" ELSE "u_commit" ])

\* delete_many().filter(ClassroomId.eq(id)), in the transaction: the rows
\* of the classroom there are now (ids); insert_users then comes to its
\* first INSERT, or to the commit when the filter leaves no npm
UpdateClassroomDeleteUsers(k) ==
    /\ tasks[k].pc = "u_delete"
    /\ UNCHANGED << now, classrooms, users, accounts, streams >>
    /\ LET r == tasks[k]
           left == Named(r.cpayload.users[1])
       IN  Goto(k, [ r EXCEPT
                !.ids = { u \in DOMAIN users : users[u].classroom_id = r.cid },
                !.left = left,
                !.pc = UpdateAfterInsert(left) ])

\* one INSERT of insert_users, in the transaction of update_classroom; an
\* INSERT the database refuses returns the error and the transaction is
\* dropped uncommitted
UpdateClassroomInsertUser(k, inserted) ==
    /\ tasks[k].pc = "u_users"
    /\ UNCHANGED << now, classrooms, users, accounts, streams >>
    /\ LET r == tasks[k]
       IN  IF ~inserted
           THEN Return(k, [ r EXCEPT !.txn = << >>, !.left = << >>,
                                     !.ids = {} ], 0,
                       Database(InsertRefused))
           ELSE /\ Len(users) + Len(r.txn) < MaxUserRows
                /\ Goto(k, [ r EXCEPT
                      !.txn = Append(@, NewUser(r.cid, Head(r.left), "p")),
                      !.left = Tail(@),
                      !.pc = UpdateAfterInsert(Tail(r.left)) ])

\* `txn.commit()` of update_classroom: the columns Set are in the row of
\* the classroom, the rows deleted are gone and the users inserted are in
\* the table.  The transaction has held the write lock of the database
\* since its UPDATE, so the row of the classroom is there.
UpdateClassroomCommit(k) ==
    /\ tasks[k].pc = "u_commit"
    /\ HasClassroom(classrooms, tasks[k].cid)
    /\ Len(users) + Len(tasks[k].txn) <= MaxUserRows
    /\ UNCHANGED << now, accounts, streams >>
    /\ LET r == tasks[k]
       IN  /\ classrooms' = [ classrooms EXCEPT ![r.cid] =
                                ClassroomWritten(@, r.cpayload) ]
           /\ users' = [ u \in DOMAIN users |->
                           IF u \in r.ids THEN Tombstone ELSE users[u] ]
                       \o r.txn
           /\ Goto(k, [ r EXCEPT !.pc = "u_reload" ])

\* load_classroom_with_users after the commit of update_classroom, and the
\* response
UpdateClassroomReload(k) ==
    /\ tasks[k].pc = "u_reload"
    /\ UNCHANGED << now, classrooms, users, accounts, streams >>
    /\ IF HasClassroom(classrooms, tasks[k].cid)
       THEN Return(k, tasks[k], 200, NoError)
       ELSE Return(k, tasks[k], 0, ClassroomNotFound)

\* DELETE /api/classrooms/{id}: delete_by_id; the users of the classroom go
\* with it (ON DELETE CASCADE)
DeleteClassroom(cid) ==
    /\ now <= MaxRequestTime
    /\ UNCHANGED << now, accounts, streams, tasks >>
    /\ LET r == [ NoTask EXCEPT !.op = "classroom_delete", !.cid = cid ]
       IN  IF HasClassroom(classrooms, cid)
           THEN /\ classrooms' = [ classrooms EXCEPT ![cid] = NoClassroom ]
                /\ users' = [ u \in DOMAIN users |->
                                IF users[u].classroom_id = cid
                                THEN Tombstone ELSE users[u] ]
                /\ last' = Answer(r, 204, NoError)
           ELSE /\ UNCHANGED << classrooms, users >>
                /\ last' = Answer(r, 0, ClassroomNotFound)

(***************************************************************************)
(* Accounts: routes/account.rs                                             *)
(***************************************************************************)
\* create_account up to its INSERT: the SELECT of the npm
AccountFind(k, npm, role) ==
    /\ Idle(k)
    /\ UNCHANGED << now, classrooms, users, accounts, streams >>
    /\ LET r == [ NoTask EXCEPT !.op = "account_create", !.npm = npm,
                                !.role = role ]
       IN  IF npm = ""
           THEN Return(k, r, 0, BadRequest("NPM wajib diisi"))
           ELSE IF AccountOfNpm(accounts, npm) # 0
           THEN Return(k, r, 0, BadRequest("NPM sudah terdaftar."))
           ELSE Goto(k, [ r EXCEPT !.pc = "account" ])

\* the INSERT of create_account
AccountInsert(k) ==
    /\ tasks[k].pc = "account"
    /\ UNCHANGED << now, classrooms, users, streams >>
    /\ LET r == tasks[k]
       IN  IF AccountOfNpm(accounts, r.npm) # 0
           THEN /\ UNCHANGED accounts
                /\ Return(k, r, 0, Database(UniqueViolation))
           ELSE /\ Len(accounts) < MaxAccountRows
                /\ accounts' = InsertAccount(accounts, r.npm, r.role)
                /\ Return(k, r, 201, NoError)

\* update_account_role up to its UPDATE: find_by_id
RoleFind(k, aid, role) ==
    /\ Idle(k)
    /\ UNCHANGED << now, classrooms, users, accounts, streams >>
    /\ LET r == [ NoTask EXCEPT !.op = "account_role", !.uid = aid,
                                !.role = role ]
       IN  IF HasAccount(accounts, aid)
           THEN Goto(k, [ r EXCEPT !.pc = "role" ])
           ELSE Return(k, r, 0, BadRequest("Akun tidak ditemukan"))

\* the UPDATE of update_account_role
RoleUpdate(k) ==
    /\ tasks[k].pc = "role"
    /\ UNCHANGED << now, classrooms, users, streams >>
    /\ LET r == tasks[k]
       IN  IF HasAccount(accounts, r.uid)
           THEN /\ accounts' = [ accounts EXCEPT ![r.uid].role = r.role ]
                /\ Return(k, r, 200, NoError)
           ELSE /\ UNCHANGED accounts
                /\ Return(k, r, 0, Database(RecordNotUpdated))

\* DELETE /api/accounts/{id}
DeleteAccount(aid) ==
    /\ now <= MaxRequestTime
    /\ UNCHANGED << now, classrooms, users, streams, tasks >>
    /\ LET r == [ NoTask EXCEPT !.op = "account_delete", !.uid = aid ]
       IN  IF HasAccount(accounts, aid)
           THEN /\ accounts' = [ accounts EXCEPT ![aid] = NoAccount ]
                /\ last' = Answer(r, 204, NoError)
           ELSE /\ UNCHANGED accounts
                /\ last' = Answer(r, 0, BadRequest("Akun tidak ditemukan"))

(***************************************************************************)
(* Judge proxy: routes/judge.rs, submit_code                               *)
(***************************************************************************)
\* npm of POST /api/judge0/submissions: absent, blank or a name
SubmitNpms == { None, Some(""), Some("a") }

\* a proxy that saves the code the way finish_exam does
SubmitWriteLikeFinish(u, code) == [ u EXCEPT !.active = FALSE, !.code = code ]

\* user_am.code = Set(payload.source_code) of submit_code
SubmitWrite(u, code) == [ u EXCEPT !.code = code ]

\* submit_code up to its UPDATE, or up to send() when it has no npm
SubmitFind(k, npm, code) ==
    /\ Idle(k)
    /\ UNCHANGED << now, classrooms, users, accounts, streams >>
    /\ LET r == [ NoTask EXCEPT !.op = "submit", !.npm = UnwrapOr(npm, ""),
                                !.code = code, !.lang = LanguageId ]
       IN  IF IsNone(npm) \/ npm = Some("")
           THEN Goto(k, [ r EXCEPT !.pc = "send" ])
           ELSE \E uid \in RowsOfNpm(users, npm[1]) :
                  IF uid = 0
                  THEN Return(k, r, 0, UserNotFound)
                  ELSE Goto(k, [ r EXCEPT !.pc = "update", !.uid = uid,
                                          !.seen = users[uid] ])

\* the UPDATE of submit_code
SubmitUpdate(k) ==
    /\ tasks[k].op = "submit" /\ tasks[k].pc = "update"
    /\ UNCHANGED << now, classrooms, accounts, streams >>
    /\ LET r == tasks[k]
       IN  IF HasUser(users, r.uid)
           THEN /\ users' = [ users EXCEPT ![r.uid] = SubmitWrite(@, r.code) ]
                /\ Goto(k, [ r EXCEPT !.pc = "send" ])
           ELSE /\ UNCHANGED users
                /\ Return(k, r, 0, Database(RecordNotUpdated))

(***************************************************************************)
(* Specifications                                                          *)
(***************************************************************************)
\* the steps of find_classroom_for_npm, which are the steps of a login whose
\* account is there
GateSteps(k) ==
    \/ GateRead(k)
    \/ GateStamp(k)

\* the steps of login
LoginSteps(k) ==
    \/ LoginCount(k)
    \/ LoginInsert(k)
    \/ GateSteps(k)

\* the classroom is created with a time limit of one minute
InitRequests == Init /\ classrooms[1].time_limit = I64(1)

\* two logins at a time, each followed from one await to the next, while the
\* proctor switches the enrolled user off and on and deletes the row
NextGate ==
    \/ \E npm \in LoginNpms : LoginFind(1, npm, FALSE)
    \/ LoginFind(2, "a", FALSE)
    \/ \E k \in TaskIds : LoginSteps(k)
    \/ \E a \in BOOLEAN : StatusEnsure(2, 1, {1}, a)
    \/ StatusUpdate(2)
    \/ UserEnsure(2, "user_delete", 1, 1, NoUserPayload)
    \/ UserFind(2)
    \/ UserDelete(2)
    \/ Advance(MaxRequestTime + TickSecs)

SpecGate == InitRequests /\ [][NextGate]_vars

\* the classroom of InitRequests with every admission window of Windows
InitWindowRequests == InitWindow /\ classrooms[1].time_limit = I64(1)

\* the gate applied to every row of InitWindowRequests at every second up to
\* the one after WinEnd: logins of every npm, one at a time, while the
\* proctor switches the enrolled user off and on
NextWindow ==
    \/ \E npm \in LoginNpms : LoginFind(1, npm, FALSE)
    \/ LoginSteps(1)
    \/ \E a \in BOOLEAN : StatusEnsure(2, 1, {1}, a)
    \/ StatusUpdate(2)
    \/ Advance(MaxRequestTime + TickSecs)

SpecWindow == InitWindowRequests /\ [][NextWindow]_vars

\* an exam classroom
InitLive == Init /\ classrooms[1].is_exam

\* the exam of InitLive with a time limit of 0 minutes
InitRoster == InitLive /\ classrooms[1].time_limit = I64(0)

\* the steps of finish_exam and of submit_code after the first
FinishSteps(k) ==
    \/ FinishUpdate(k)
    \/ JudgeSend(k)
    \/ \E o \in JudgeOutcomes : JudgeAnswer(k, o)
    \/ \E read \in BOOLEAN : JudgeBodyRead(k, read)

\* finish_exam, followed from one await to the next, with a second
\* finish_exam of the same user, the proctor's update_users_status and
\* delete_user_from_classroom, and the user's login in between
NextFinish ==
    \/ \E c \in {1, 2}, npm \in FinishNpms, code \in FinishCodes :
          FinishFind(1, c, npm, code)
    \/ FinishFind(2, 1, "a", "p")
    \/ \E k \in TaskIds : FinishSteps(k)
    \/ \E a \in BOOLEAN : StatusEnsure(2, 1, {1}, a)
    \/ StatusUpdate(2)
    \/ UserEnsure(2, "user_delete", 1, 1, NoUserPayload)
    \/ UserFind(2)
    \/ UserDelete(2)
    \/ LoginFind(2, "a", FALSE)
    \/ LoginSteps(2)
    \/ Advance(TickSecs)

SpecFinish == InitRoster /\ [][NextFinish]_vars

\* one finish_exam with the proctor's update_users_status next to it
NextJudge ==
    \/ \E code \in FinishCodes : FinishFind(1, 1, "a", code)
    \/ FinishSteps(1)
    \/ \E a \in BOOLEAN : StatusEnsure(2, 1, {1}, a)
    \/ StatusUpdate(2)
    \/ Advance(MaxRequestTime + TickSecs)

\* the server's own steps are scheduled and the clock runs; the judge need
\* not answer
SpecJudgeLive ==
    /\ InitRoster /\ [][NextJudge]_vars
    /\ WF_vars(FinishUpdate(1))
    /\ WF_vars(JudgeSend(1))
    /\ WF_vars(\E read \in BOOLEAN : JudgeBodyRead(1, read))
    /\ WF_vars(StatusUpdate(2))
    /\ WF_vars(Advance(MaxRequestTime + TickSecs))

\* what the student's client sends: login, finish_exam and the judge proxy
NextStudent ==
    \/ LoginFind(1, "a", FALSE)
    \/ LoginSteps(1)
    \/ \E code \in FinishCodes : FinishFind(1, 1, "a", code)
    \/ FinishSteps(1)
    \/ \E npm \in SubmitNpms, code \in FinishCodes : SubmitFind(2, npm, code)
    \/ SubmitUpdate(2)
    \/ FinishSteps(2)
    \/ Advance(TickSecs)

SpecStudent == InitRoster /\ [][NextStudent]_vars

\* two logins at a time, as admin or not, while user accounts are created
\* (create_account) and account 1 is given the role user
\* (update_account_role) or deleted (delete_account); each request is
\* followed from one database call to the next, and only a login makes an
\* admin
NextAdmins ==
    \/ \E k \in TaskIds, npm \in AccountNpms, a \in BOOLEAN :
          LoginFind(k, npm, a)
    \/ \E k \in TaskIds : LoginSteps(k)
    \/ \E npm \in LoginNpms : AccountFind(2, npm, "user")
    \/ AccountInsert(2)
    \/ RoleFind(2, 1, "user")
    \/ RoleUpdate(2)
    \/ DeleteAccount(1)
    \/ Advance(TickSecs)

SpecAdmins == InitRoster /\ [][NextAdmins]_vars

\* a session from its first login to past its deadline: the user logs in at
\* any time, and the proctor may switch the user off and on early on
NextSession ==
    \/ LoginFindAt(1, "a", FALSE)
    \/ LoginSteps(1)
    \/ \E a \in BOOLEAN : StatusEnsure(2, 1, {1}, a)
    \/ StatusUpdate(2)
    \/ Advance(MaxTime)

InitSession ==
    /\ Init
    /\ classrooms[1].is_exam /\ classrooms[1].time_limit = I64(1)

SpecSession == InitSession /\ [][NextSession]_vars

\* the exam of InitLive when the user's account is there (the user has
\* been answered a login before the enrollment) and the user has not
\* logged in since
InitEnrolled ==
    StoreAt({ TRUE }, { NoWindow }, TimeLimits,
            InsertAccount(<< >>, "a", "user"), None)

\* the steps of the proctor's requests after the first
StaffSteps(k) ==
    \/ StatusUpdate(k)
    \/ UserFind(k)
    \/ UserWrite(k)
    \/ UserDelete(k)
    \/ \E i \in BOOLEAN : AddUserInsert(k, i)
    \/ ClassroomInsert(k)
    \/ \E i \in BOOLEAN : ClassroomInsertUser(k, i)
    \/ ClassroomCommit(k)
    \/ ClassroomReload(k)

\* every routed handler that writes the table users: the student's requests
\* on one task (login, finish_exam, the judge proxy), the proctor's and a
\* second login of the student on the other, each followed from one await to
\* the next.  update_classroom is mounted by no route of api_router
\* (routes/mod.rs); its steps are in NextDeclared.
NextWriters ==
    \/ \E k \in TaskIds : LoginFind(k, "a", FALSE)
    \/ \E k \in TaskIds : GateSteps(k)
    \/ FinishFind(1, 1, "a", "q")
    \/ SubmitFind(1, Some("a"), "q")
    \/ SubmitUpdate(1)
    \/ FinishSteps(1)
    \/ StatusEnsure(2, 1, {1}, FALSE)
    \/ UserEnsure(2, "user_update", 1, 1, Deactivate)
    \/ UserEnsure(2, "user_delete", 1, 1, NoUserPayload)
    \/ AddUserEnsure(2, 1, "a")
    \/ ClassroomBegin(2, NewExam)
    \/ DeleteClassroom(1)
    \/ StaffSteps(2)
    \/ Advance(TickSecs)

\* the exam of InitEnrolled with a time limit of 0 minutes
InitWriters == InitEnrolled /\ classrooms[1].time_limit = I64(0)

SpecWriters == InitWriters /\ [][NextWriters]_vars

\* the steps of update_classroom after the first
UpdateSteps(k) ==
    \/ UpdateClassroomBegin(k)
    \/ UpdateClassroomRow(k)
    \/ UpdateClassroomDeleteUsers(k)
    \/ \E i \in BOOLEAN : UpdateClassroomInsertUser(k, i)
    \/ UpdateClassroomCommit(k)
    \/ UpdateClassroomReload(k)

\* update_classroom, called on the exam classroom as a route
\* `put(classroom::update_classroom)` would call it, with every payload of
\* UpdatePayloads and followed from one await to the next, next to the
\* requests of NextWriters that update a row of users: two logins at a
\* time, finish_exam and the judge proxy of the student, update_users_status
\* and update_user_in_classroom of the proctor
NextDeclared ==
    \/ \E k \in TaskIds : LoginFind(k, "a", FALSE)
    \/ \E k \in TaskIds : GateSteps(k)
    \/ FinishFind(1, 1, "a", "q")
    \/ SubmitFind(1, Some("a"), "q")
    \/ SubmitUpdate(1)
    \/ FinishSteps(1)
    \/ StatusEnsure(2, 1, {1}, FALSE)
    \/ StatusUpdate(2)
    \/ UserEnsure(2, "user_update", 1, 1, Deactivate)
    \/ UserFind(2)
    \/ UserWrite(2)
    \/ \E p \in UpdatePayloads : UpdateClassroomLoad(2, 1, p)
    \/ UpdateSteps(2)
    \/ Advance(TickSecs)

SpecDeclared == InitWriters /\ [][NextDeclared]_vars

\* update_users_status with every request of StatusIdSets, on the classroom
\* of the exam and on one that never existed, while the user logs in and the
\* classroom or the user's row is deleted
NextRoster ==
    \/ \E c \in {1, 3}, ids \in StatusIdSets, a \in BOOLEAN :
          StatusEnsure(2, c, ids, a)
    \/ StatusUpdate(2)
    \/ LoginFind(1, "a", FALSE)
    \/ LoginSteps(1)
    \/ UserEnsure(1, "user_delete", 1, 1, NoUserPayload)
    \/ UserFind(1)
    \/ UserDelete(1)
    \/ DeleteClassroom(1)
    \/ Advance(TickSecs)

SpecRoster == InitRoster /\ [][NextRoster]_vars

\* every AppError at the response boundary, and the errors login comes to
\* while the proctor deletes the user's row
NextErrors ==
    \/ \E err \in AppErrors : Respond(err)
    \/ \E npm \in LoginNpms : LoginFind(1, npm, FALSE)
    \/ LoginSteps(1)
    \/ UserEnsure(2, "user_delete", 1, 1, NoUserPayload)
    \/ UserFind(2)
    \/ UserDelete(2)
    \/ Advance(TickSecs)

SpecErrors == InitRequests /\ [][NextErrors]_vars

\* the steps of the streams of classroom_events: the second SELECT of the
\* request, a poll of the loop, the poll after the event, the disconnect
StreamSteps(s) ==
    \/ \E checked \in BOOLEAN : EventsFindClassroom(s, checked)
    \/ StreamStep(s)
    \/ StreamEnd(s)
    \/ StreamDrop(s)

\* the user logs in, twice at a time, and opens two streams, each polled at
\* or after the end of its sleep, while the clock runs past the deadline of
\* an exam of 0 minutes
NextNotifier ==
    \/ \E k \in TaskIds : LoginFind(k, "a", FALSE)
    \/ \E k \in TaskIds : GateSteps(k)
    \/ \E s \in StreamIds, npm \in EventNpms : EventsFindUser(s, 1, npm)
    \/ \E s \in StreamIds : StreamSteps(s)
    \/ Advance(MaxRequestTime + TickSecs)

SpecNotifier == InitEnrolled /\ [][NextNotifier]_vars

\* the exam of InitLive once the user has logged in at 0: the account is
\* there and exam_started_at is 0
InitStarted ==
    StoreAt({ TRUE }, { NoWindow }, TimeLimits,
            InsertAccount(<< >>, "a", "user"), Some(0))

\* one stream of the user, asked for at any time up to MaxRequestTime; its
\* request and its polls come at any time, however late, while the clock
\* runs past the deadline of a one-minute exam
NextCountdown ==
    \/ EventsFindUser(1, 1, "a")
    \/ StreamSteps(1)
    \/ Advance(MaxTime)

SpecCountdown == InitStarted /\ [][NextCountdown]_vars

\* an exam of 0 minutes or of one minute
InitCountdown ==
    InitStarted /\ classrooms[1].time_limit \in { I64(0), I64(1) }

\* the stream of NextCountdown with a peer that stays connected
NextLive ==
    \/ EventsFindUser(1, 1, "a")
    \/ \E checked \in BOOLEAN : EventsFindClassroom(1, checked)
    \/ StreamStep(1)
    \/ StreamEnd(1)
    \/ Advance(MaxTime)

\* time keeps advancing, the request is served, and the consumer of the
\* response body (hyper's connection task, woken by the timer of the sleep)
\* polls the stream again
SpecLive ==
    /\ InitCountdown /\ [][NextLive]_vars
    /\ WF_vars(StreamStep(1))
    /\ WF_vars(Advance(MaxTime))
    /\ WF_vars(\E checked \in BOOLEAN : EventsFindClassroom(1, checked))

\* the user of a classroom, exam or not, with every window and time limit,
\* logs in and asks for a stream
NextInert ==
    \/ LoginFind(1, "a", FALSE)
    \/ LoginSteps(1)
    \/ \E npm \in EventNpms : EventsFindUser(1, 1, npm)
    \/ StreamSteps(1)
    \/ Advance(MaxRequestTime + TickSecs)

SpecInert == InitWindow /\ [][NextInert]_vars

\* an exam of one minute
InitReread == InitStarted /\ classrooms[1].time_limit = I64(1)

\* a stream of the user of a one-minute exam, while the proctor switches the
\* user off, deletes the row and deletes the classroom
NextReread ==
    \/ EventsFindUser(1, 1, "a")
    \/ StreamSteps(1)
    \/ StatusEnsure(2, 1, {1}, FALSE)
    \/ StatusUpdate(2)
    \/ UserEnsure(2, "user_delete", 1, 1, NoUserPayload)
    \/ UserFind(2)
    \/ UserDelete(2)
    \/ DeleteClassroom(1)
    \/ Advance(MaxTime)

SpecReread == InitReread /\ [][NextReread]_vars

(***************************************************************************)
(* Properties                                                              *)
(***************************************************************************)
\* task k takes a step
Steps(k) == tasks'[k] # tasks[k]
\* the request of task k after its step: still in flight, or answered
After(k) == IF tasks'[k].pc = "idle" THEN last' ELSE tasks'[k]
\* task k runs the SELECT of find_classroom_for_npm and finds a row
GateReads(k) ==
    tasks[k].pc = "gate" /\ Steps(k) /\ After(k).uid # 0
\* the row and the classroom that SELECT returns
RowRead(k) == users[After(k).uid]
ClassroomRead(k) == classrooms[users[After(k).uid].classroom_id]
\* a response has just been produced for a request of this kind
Answered(op) == last.op = op /\ last.pc = "done"

\* C1: a login that finds exam_started_at set in the row it reads makes no
\* UPDATE and leaves every user row as it is: logins that follow the first
\* stored timestamp keep it.
C1_EntryGateIdempotent ==
    [][ \A k \in TaskIds :
          ( GateReads(k) /\ ClassroomRead(k).is_exam
            /\ IsSome(RowRead(k).exam_started_at) ) =>
              /\ After(k).pc # "stamp"
              /\ users' = users ]_vars

\* a later login of a user with a stored start has been admitted, and the
\* stored start is the one the login found
C1_Witness ==
    /\ Answered("login") /\ last.err = NoError /\ last.uid # 0
    /\ classrooms[last.cid].is_exam
    /\ IsSome(last.seen.exam_started_at)
    /\ last.t > last.seen.exam_started_at[1]
    /\ users[last.uid].exam_started_at = last.seen.exam_started_at

\* C8: a login that reads a row with active = false answers Unauthorized
\* (401) and writes no user row, whatever the classroom holds.
C8_InactiveRejected ==
    [][ \A k \in TaskIds :
          ( GateReads(k) /\ ~RowRead(k).active ) =>
              /\ last' = Answer(After(k), 0, Unauthorized(Inactive))
              /\ last'.status = 401
              /\ tasks'[k].pc = "idle"
              /\ users' = users ]_vars

\* an inactive user of an exam classroom who has not logged in was refused
C8_Witness ==
    /\ Answered("login") /\ last.err = Unauthorized(Inactive)
    /\ last.uid # 0 /\ ~users[last.uid].active
    /\ classrooms[last.cid].is_exam
    /\ IsNone(users[last.uid].exam_started_at)
    /\ now = 2

WithinAdmissionWindow(t, exam_start, exam_end) ==
    \/ IsNone(exam_start)
    \/ IsNone(exam_end)
    \/ ( exam_start[1] <= t /\ t <= exam_end[1] )

\* C10: the gate of an exam classroom admits an active user on timing
\* grounds exactly when a bound is absent or exam_start <= now <= exam_end.
C10_AdmissionIsWindow ==
    [][ \A k \in TaskIds :
          ( GateReads(k) /\ RowRead(k).active /\ ClassroomRead(k).is_exam ) =>
              LET c == ClassroomRead(k)
              IN  ( After(k).err = NoError )
                    <=> WithinAdmissionWindow(now, c.exam_start, c.exam_end) ]_vars

\* a login at the last second of the window was admitted, and one a second
\* later was refused
C10_Witness ==
    /\ Answered("login") /\ last.uid # 0
    /\ classrooms[last.cid].is_exam
    /\ classrooms[last.cid].exam_start = Some(WinStart)
    /\ classrooms[last.cid].exam_end = Some(WinEnd)
    /\ last.t = WinEnd + 1
    /\ last.err = Unauthorized(Ended)
    /\ users[last.uid].exam_started_at = Some(WinEnd)

\* C16: whatever logins of one user run together, a stored exam_started_at
\* is not replaced by a later one.
C16_StampedOnceUnderRace ==
    [][ \A u \in DOMAIN users :
          ( IsSome(users[u].exam_started_at) /\ HasUser(users', u) ) =>
              users'[u].exam_started_at = users[u].exam_started_at ]_vars

\* C20: a login answered Unauthorized has written nothing: its last step
\* leaves the store as it is, and it has inserted no account before (role
\* is the role a login inserts its account with).
C20_RejectedLoginWritesNothing ==
    [][ ( last'.op = "login" /\ last'.pc = "done"
          /\ last'.err.kind = "Unauthorized" ) =>
            /\ store' = store
            /\ last'.role = "" ]_vars

\* task k runs a step of a handler of this kind that is not its first
StepOf(k, op) == tasks[k].op = op /\ Steps(k)
\* a request of this kind arrives and runs its first step as task k
Starts(k, op) ==
    /\ tasks[k].pc = "idle"
    /\ \/ tasks'[k].op = op
       \/ tasks' = tasks /\ last'.pc = "done" /\ last'.op = op
\* the rows of the users table other than row uid are left as they are
OnlyRow(uid) ==
    /\ DOMAIN users' = DOMAIN users
    /\ \A u \in DOMAIN users : u # uid => users'[u] = users[u]

\* C2 as claimed: whenever finish_exam has resolved a user and returns, the
\* user's active flag is false.
C2_FinishLeavesInactive ==
    ( Answered("finish") /\ last.uid # 0 /\ HasUser(users, last.uid) ) =>
        ~users[last.uid].active

\* C2: the UPDATE of finish_exam sets active = false on the row it has
\* resolved, and no later step of the handler writes a user row, whatever
\* the judge call comes to (transport error, non-2xx, 2xx with or without a
\* decodable body); only the write of another request makes the flag true.
C2_FinishDeactivates ==
    [][ \A k \in TaskIds : StepOf(k, "finish") =>
          IF tasks[k].pc = "update" /\ HasUser(users, tasks[k].uid)
          THEN ~users'[tasks[k].uid].active /\ OnlyRow(tasks[k].uid)
          ELSE users' = users ]_vars

\* a finish_exam whose judge answered 200 with an undecodable body has
\* returned, and the user is inactive
C2_Witness ==
    /\ Answered("finish") /\ last.err = DecodeFailed
    /\ last.seen.active
    /\ HasUser(users, last.uid) /\ ~users[last.uid].active

\* C3 as claimed: when finish_exam has returned External for a non-success
\* status of the judge, a read of the user shows active = false and the
\* code submitted in that call.
C3_ReadShowsWriteAfterFailure ==
    ( /\ Answered("finish") /\ last.err.kind = "External"
      /\ last.outcome.kind = "response" /\ ~IsSuccess(last.outcome.status)
      /\ HasUser(users, last.uid) ) =>
        /\ ~users[last.uid].active
        /\ users[last.uid].code = last.code

\* C3 amended: when the judge answers with a non-success status, finish_exam
\* returns External (502) with the status code and the body in its message,
\* and the write of its UPDATE (active = false, the submitted code) is not
\* undone: no step of the handler after the UPDATE touches the row, so the
\* row holds that write unless another request has written it since.
C3_JudgeFailureKeepsWrite ==
    [][ \A k \in TaskIds : StepOf(k, "finish") =>
          /\ ( tasks[k].pc = "update" /\ HasUser(users, tasks[k].uid) ) =>
                users'[tasks[k].uid] =
                    [ users[tasks[k].uid] EXCEPT !.active = FALSE,
                                                 !.code = tasks[k].code ]
          /\ tasks[k].pc \in { "wait", "body" } => users' = users
          /\ ( tasks[k].pc = "body" /\ ~IsSuccess(tasks[k].outcome.status) ) =>
                /\ last'.pc = "done" /\ last'.status = 502
                /\ last'.err.kind = "External"
                /\ \E b \in { "", "body" } :
                      last'.err.arg =
                          "status " \o ToString(tasks[k].outcome.status)
                          \o " dari Judge0: " \o b ]_vars

\* the judge answered 500 to the finish_exam of an active user with a new
\* code: External is returned and the row holds the write
C3_Witness ==
    /\ Answered("finish") /\ last.status = 502
    /\ last.err = External("status 500 dari Judge0: body")
    /\ last.seen.active /\ last.seen.code # last.code
    /\ HasUser(users, last.uid)
    /\ users[last.uid] = [ last.seen EXCEPT !.active = FALSE,
                                            !.code = last.code ]

\* C11: finish_exam for a classroom id and an npm that no user row matches
\* returns UserNotFound (404) at once: nothing is written and no judge
\* request is made.
C11_FinishNotFound ==
    [][ \A k \in TaskIds :
          ( Starts(k, "finish")
            /\ \A u \in DOMAIN users :
                  ~( HasUser(users, u) /\ users[u].npm = After(k).npm
                     /\ users[u].classroom_id = After(k).cid ) ) =>
              /\ last'.pc = "done" /\ last'.err = UserNotFound
              /\ last'.status = 404
              /\ last'.sent = 0
              /\ tasks' = tasks
              /\ store' = store ]_vars

\* finish_exam of classroom 2 for the npm of a user of classroom 1 has been
\* answered 404
C11_Witness ==
    /\ Answered("finish") /\ last.err = UserNotFound
    /\ last.cid = 2 /\ last.npm = "a"
    /\ \E u \in DOMAIN users : users[u].npm = "a" /\ users[u].classroom_id = 1

\* a judge request of task k is in flight or answered
Judged(k) == tasks[k].op = "finish" /\ tasks[k].pc \in { "wait", "body" }

\* C17 as claimed: in every state in which a judge request of finish_exam is
\* in flight or answered, the user has active = false and the code of that
\* call.
C17_WriteHeldWhileJudged ==
    \A k \in TaskIds :
        ( Judged(k) /\ HasUser(users, tasks[k].uid) ) =>
            /\ ~users[tasks[k].uid].active
            /\ users[tasks[k].uid].code = tasks[k].code

\* C17: the judge request of finish_exam leaves only after the UPDATE has
\* committed active = false and the code; an UPDATE that fails ends the call
\* with its error, nothing written and no judge request sent.
C17_CommittedBeforeSent ==
    [][ \A k \in TaskIds : StepOf(k, "finish") =>
          /\ tasks'[k].sent > tasks[k].sent => tasks[k].pc = "send"
          /\ tasks'[k].pc = "send" =>
                /\ tasks[k].pc = "update"
                /\ users'[tasks[k].uid] =
                      FinishWrite(users[tasks[k].uid], tasks[k].code)
          /\ ( tasks[k].pc = "update" /\ tasks'[k].pc # "send" ) =>
                /\ last'.pc = "done" /\ last'.err.kind = "Database"
                /\ last'.sent = 0
                /\ users' = users ]_vars

\* an UPDATE of finish_exam has failed on a row deleted after the SELECT
C17_Witness ==
    /\ Answered("finish") /\ last.err = Database(RecordNotUpdated)
    /\ last.status = 500 /\ last.sent = 0
    /\ ~HasUser(users, last.uid)

\* C22 as claimed: every finish_exam that resolves the user makes exactly
\* one judge request.
C22_OneRequestPerResolved ==
    ( Answered("finish") /\ last.uid # 0 ) => last.sent = 1

\* C22: a finish_exam of an inactive user is not refused: it goes on to its
\* UPDATE like any other; no step of finish_exam makes a user active; and a
\* finish_exam whose UPDATE succeeded has made exactly one judge request
\* when it returns, whatever the judge answered.
C22_DuplicateFinishRepeats ==
    /\ [] /\ ( Answered("finish") /\ last.err.kind # "Database"
                /\ last.uid # 0 ) => last.sent = 1
          /\ Answered("finish") => last.sent <= 1
          /\ \A k \in TaskIds :
                tasks[k].op = "finish" =>
                    /\ tasks[k].sent <= 1
                    /\ tasks[k].sent = 1 <=> tasks[k].pc \in { "wait", "body" }
    /\ [][ \A k \in TaskIds :
             /\ ( Starts(k, "finish") /\ After(k).uid # 0 ) =>
                   tasks'[k].pc = "update"
             /\ StepOf(k, "finish") =>
                   \A u \in DOMAIN users : users'[u].active => users[u].active
          ]_vars

\* the finish_exam of a user who was already inactive has been sent to the
\* judge, which failed, and the call has returned with one request made
C22_Witness ==
    /\ Answered("finish") /\ last.err = SendFailed
    /\ ~last.seen.active
    /\ last.sent = 1
    /\ HasUser(users, last.uid) /\ ~users[last.uid].active
    /\ users[last.uid].code = last.code

\* C28 as claimed: the request that reaches the judge carries the npm.
C28_JudgeRequestCarriesNpm ==
    \A k \in TaskIds :
        ( tasks[k].op = "finish" /\ tasks[k].sent > 0 ) =>
            /\ "npm" \in DOMAIN tasks[k].body
            /\ tasks[k].body.npm = tasks[k].npm

\* C28: the request that reaches the judge carries the submitted source code
\* and the language id, and no npm.
C28_JudgeRequestCarriesCode ==
    \A k \in TaskIds :
        ( tasks[k].op = "finish" /\ tasks[k].sent > 0 ) =>
            /\ tasks[k].body.source_code = tasks[k].code
            /\ tasks[k].body.language_id = tasks[k].lang
            /\ tasks[k].lang = LanguageId
            /\ DOMAIN tasks[k].body = { "source_code", "language_id" }

\* the finish_exam of user "a" with code "q" is with the judge
C28_Witness ==
    \E k \in TaskIds :
        /\ tasks[k].op = "finish" /\ tasks[k].pc = "wait"
        /\ tasks[k].npm = "a" /\ tasks[k].code = "q"
        /\ tasks[k].body.source_code = "q"

\* C18: every finish_exam returns: a call that has started is answered, a
\* silent judge included.
C18_FinishReturns ==
    \A k \in TaskIds : ( tasks[k].op = "finish" ) ~> ( tasks[k].pc = "idle" )

\* C23: while a user stays inactive, no step of submit_code changes the
\* user's stored code.
C23_FrozenAfterFinish ==
    [][ \A k \in TaskIds : StepOf(k, "submit") =>
          \A u \in DOMAIN users :
              ( ~users[u].active /\ ~users'[u].active ) =>
                  users'[u].code = users[u].code ]_vars

\* C30: login never creates a second admin: whatever logins run, one after
\* another or at the same time, at most one account has the role admin, and
\* a login refused with BadRequest has inserted no account.
C30_AtMostOneAdmin ==
    /\ Cardinality({ a \in DOMAIN accounts : accounts[a].role = "admin" }) <= 1
    /\ ( Answered("login") /\ last.err.kind = "BadRequest" ) => last.role = ""

\* the per-user deadline of the specification: exam_started_at + time_limit
\* minutes, for the time limits a minute count can hold
MathDeadline(t0, tl) == t0 + tl[1] * SecsPerMinute

\* C21: a login of a user whose exam_started_at is set is admitted only
\* inside the admission window and before exam_started_at + time_limit.
C21_AdmittedOnlyBeforeDeadline ==
    ( Answered("login") /\ last.err = NoError /\ last.uid # 0
      /\ IsSome(last.seen.exam_started_at) ) =>
        /\ WithinAdmissionWindow(last.t, classrooms[last.cid].exam_start,
                                 classrooms[last.cid].exam_end)
        /\ last.t < MathDeadline(last.seen.exam_started_at[1],
                                 classrooms[last.cid].time_limit)

\* row u of an exam classroom is active now and inactive after the step
Deactivated(u) ==
    /\ HasUser(users, u) /\ users[u].active
    /\ HasClassroom(classrooms, users[u].classroom_id)
    /\ classrooms[users[u].classroom_id].is_exam
    /\ HasUser(users', u)
    /\ ~users'[u].active

\* task k runs the UPDATE of a handler of this kind on row u
Updates(k, op, pc, u) ==
    tasks[k].op = op /\ tasks[k].pc = pc /\ Steps(k) /\ tasks[k].uid = u

\* C12 as claimed: in an exam classroom only the UPDATE of finish_exam turns
\* the active flag of an existing user from true to false.
C12_OnlyFinishDeactivates ==
    [][ \A u \in DOMAIN users :
          Deactivated(u) =>
            \E k \in TaskIds : Updates(k, "finish", "update", u) ]_vars

\* C12 amended: in an exam classroom the active flag of an existing user
\* turns from true to false only in the UPDATE of finish_exam for that user,
\* of update_users_status with target false and the user's id listed, and of
\* update_user_in_classroom for that user with active = false; never in a
\* login, the judge proxy, create_classroom or the notifier.
C12_DeactivatedByFinishOrProctor ==
    [][ \A u \in DOMAIN users :
          Deactivated(u) =>
            \E k \in TaskIds :
              \/ Updates(k, "finish", "update", u)
              \/ /\ tasks[k].op = "status" /\ tasks[k].pc = "status"
                 /\ Steps(k) /\ ~tasks[k].flag /\ u \in tasks[k].ids
              \/ /\ Updates(k, "user_update", "write", u)
                 /\ tasks[k].upayload.active = Some(FALSE) ]_vars

\* the judge proxy has saved the code of a started, active user of the exam
\* and left the user active
C12_Witness ==
    /\ tasks[1].op = "submit" /\ tasks[1].pc = "send"
    /\ HasUser(users, tasks[1].uid)
    /\ users[tasks[1].uid].active
    /\ users[tasks[1].uid].code = "q"
    /\ tasks[1].seen.code = "p"
    /\ IsSome(users[tasks[1].uid].exam_started_at)
    /\ classrooms[users[tasks[1].uid].classroom_id].is_exam

\* C13: exam_started_at is set only by the UPDATE of the login that resolved
\* the row, and once it is set no step of a request (login, finish_exam,
\* update_users_status, update_user_in_classroom, update_classroom, the
\* judge proxy) clears or changes it while the row is there, whichever
\* requests run together.
C13_StartedAtSetOnceByGate ==
    [][ /\ \A u \in DOMAIN users' :
              ( /\ u \notin DOMAIN users \/ IsNone(users[u].exam_started_at)
                /\ IsSome(users'[u].exam_started_at) ) =>
                    \E k \in TaskIds : Updates(k, "login", "stamp", u)
        /\ \A u \in DOMAIN users :
              ( IsSome(users[u].exam_started_at) /\ HasUser(users', u) ) =>
                users'[u].exam_started_at = users[u].exam_started_at
      ]_vars

\* C14: update_users_status answers NotFound (404) and writes nothing when
\* it finds no classroom of that id; otherwise its UPDATE gives the target
\* value to the active flag of the users whose id is listed and whose
\* classroom_id is that classroom, changes no other user (ids of no user and
\* of users of other classrooms are ignored) and no other field, and
\* answers 204.
C14_StatusUpdateFrame ==
    [][ \A k \in TaskIds :
          /\ ( tasks[k].op = "status" /\ tasks[k].pc = "status" /\ Steps(k) ) =>
                /\ UNCHANGED << classrooms, accounts >>
                /\ DOMAIN users' = DOMAIN users
                /\ \A u \in DOMAIN users :
                      /\ users'[u].exam_started_at = users[u].exam_started_at
                      /\ users'[u].code = users[u].code
                      /\ users'[u].npm = users[u].npm
                      /\ users'[u].classroom_id = users[u].classroom_id
                      /\ users'[u].active =
                            IF u \in tasks[k].ids
                               /\ users[u].classroom_id = tasks[k].cid
                            THEN tasks[k].flag ELSE users[u].active
                /\ last'.status = 204
          /\ Starts(k, "status") =>
                /\ UNCHANGED store
                /\ IF HasClassroom(classrooms, After(k).cid)
                   THEN tasks'[k].pc = "status"
                   ELSE /\ last'.err = ClassroomNotFound
                        /\ last'.status = 404 ]_vars

\* a started user has been deactivated by the roster while the listed user
\* of the other classroom and the id of no user changed nothing
C14_Witness ==
    /\ Answered("status") /\ last.status = 204
    /\ last.ids = {1, 2} /\ ~last.flag
    /\ ~users[1].active /\ IsSome(users[1].exam_started_at)
    /\ users[2].active

\* C29: every response built from an error carries the status and message
\* of its variant: ClassroomNotFound and UserNotFound 404, BadRequest 400,
\* Unauthorized 401, External 502, each with the variant's text and reason;
\* Database the fixed message "internal server error", never the text of
\* the database error, with 500, and 404 for RecordNotFound.
C29_ErrorsMapToStablePairs ==
    ( last.pc = "done" /\ last.err # NoError ) =>
        LET e == last.err
        IN  /\ e.kind = "ClassroomNotFound" =>
                last.status = 404 /\ last.message = "classroom not found"
            /\ e.kind = "UserNotFound" =>
                last.status = 404 /\ last.message = "user not found"
            /\ e.kind = "BadRequest" =>
                /\ last.status = 400
                /\ last.message = "invalid request: " \o e.arg
            /\ e.kind = "Unauthorized" =>
                /\ last.status = 401
                /\ last.message = "unauthorized: " \o e.arg
            /\ e.kind = "External" =>
                /\ last.status = 502
                /\ last.message = "external service error: " \o e.arg
            /\ e.kind = "Database" =>
                /\ last.message = "internal server error"
                /\ last.message # e.db.text
                /\ last.status =
                      IF e.db.variant = "RecordNotFound" THEN 404 ELSE 500
            /\ e.kind \in { "ClassroomNotFound", "UserNotFound", "BadRequest",
                            "Unauthorized", "External", "Database" }

\* a login whose row was deleted between its SELECT and its UPDATE has
\* answered 500 with the fixed message
C29_Witness ==
    /\ Answered("login")
    /\ last.err = Database(RecordNotUpdated)
    /\ last.status = 500 /\ last.message = "internal server error"

\* t >= t0 + tl * 60, the sum and the product taken over the integers
NotBefore(t, t0, tl) ==
    LET m == MulU64(tl, SecsPerMinute)
        e == AddU64(m.val, t0)
    IN  ~m.overflow /\ ~e.overflow /\ LimbLeq(e.val, I64(t))

\* C4: no stream emits its event before exam_started_at + time_limit * 60 s
\* of the values it was opened with, for every non-negative time_limit.
C4_NeverBeforeDeadline ==
    \A s \in StreamIds :
        \A i \in 1 .. Len(streams[s].events) :
            ~IsNegative(streams[s].limit) =>
                NotBefore(streams[s].events[i].at, streams[s].started[1],
                          streams[s].limit)

\* C5: a stream emits at most one event and the event is "timeup"; with the
\* event out the generator is suspended at `yield`, its next poll ends it,
\* and neither that poll nor anything after it sleeps, emits or changes the
\* stream again.
C5_SingleTerminalEvent ==
    /\ [](\A s \in StreamIds :
            /\ Len(streams[s].events) <= 1
            /\ Len(streams[s].events) = 1 =>
                  /\ streams[s].events[1].data = "timeup"
                  /\ streams[s].st \in { "yielded", "closed", "dropped" })
    /\ [][ \A s \in StreamIds :
              /\ streams[s].st = "yielded" =>
                    \/ streams'[s] = streams[s]
                    \/ /\ streams'[s].st \in { "closed", "dropped" }
                       /\ streams'[s].events = streams[s].events
              /\ streams[s].st \in { "closed", "dropped" } =>
                    streams'[s] = streams[s] ]_vars

\* a stream has emitted its event, was polled again and ended, and the clock
\* has moved on since
C5_Witness ==
    \E s \in StreamIds :
        /\ streams[s].st = "closed"
        /\ Len(streams[s].events) = 1
        /\ streams[s].events[1].at < now

\* the later of the deadline and the opening of a stream whose deadline is
\* within the clock of the model
Due(st) ==
    IF LimbLeq(st.end_time, I64(st.opened)) THEN st.opened ELSE st.end_time[1]

\* C6 as claimed: an open stream that its peer keeps open emits its event,
\* no later than one tick after the deadline (after its opening, when it is
\* opened past the deadline).
C6_CountdownFires ==
    /\ \A s \in StreamIds :
          ( streams[s].st = "open" /\ LimbLeq(streams[s].end_time, I64(MaxTime)) )
            ~> ( Len(streams[s].events) = 1 )
    /\ [](\A s \in StreamIds :
            LimbLeq(streams[s].end_time, I64(MaxTime)) =>
              /\ streams[s].st = "open" => now <= Due(streams[s]) + TickSecs
              /\ Len(streams[s].events) = 1 =>
                    streams[s].events[1].at <= Due(streams[s]) + TickSecs)

\* C6 amended: an open stream that its peer keeps open and polls emits its
\* event, at its first poll at or after the deadline: the poll before it, one
\* tick before the end of the sleep, was before the deadline, so the event
\* is as late after the deadline as that poll is after the end of the sleep,
\* and within one tick when the poll is on time.  A poll before the
\* deadline emits nothing and sleeps one tick.
C6_FiresAtFirstPollPastDeadline ==
    /\ \A s \in StreamIds :
          ( streams[s].st = "open" /\ LimbLeq(streams[s].end_time, I64(MaxTime)) )
            ~> ( Len(streams[s].events) = 1 )
    /\ [][ \A s \in StreamIds :
              ( streams[s].st = "open" /\ streams'[s] # streams[s] ) =>
                IF Reached(streams[s].end_time, now)
                THEN /\ streams'[s].events = << [ at |-> now, data |-> "timeup" ] >>
                     /\ \/ streams[s].wake = streams[s].opened
                        \/ ~Reached(streams[s].end_time,
                                    streams[s].wake - TickSecs)
                ELSE /\ streams'[s].events = << >>
                     /\ streams'[s].st = "open"
                     /\ streams'[s].wake = now + TickSecs ]_vars

\* a stream opened before the deadline of a one-minute exam was polled late
\* and has emitted more than one tick after the deadline
C6_Witness ==
    \E s \in StreamIds :
        /\ Len(streams[s].events) = 1
        /\ streams[s].end_time = I64(streams[s].started[1] + SecsPerMinute)
        /\ streams[s].opened < streams[s].end_time[1]
        /\ streams[s].events[1].at > streams[s].end_time[1] + TickSecs

\* C19: an events request that reads a set exam_started_at and an exam
\* classroom whose time_limit is negative opens a stream, without an error
\* or a panic, and the deadline of that stream is not after the start.
C19_NegativeLimitExpired ==
    [][ \A s \in StreamIds :
          ( /\ streams[s].st = "user" /\ streams'[s] # streams[s]
            /\ IsSome(streams[s].started)
            /\ HasClassroom(classrooms, streams[s].cid)
            /\ classrooms[streams[s].cid].is_exam
            /\ IsNegative(classrooms[streams[s].cid].time_limit) ) =>
              /\ streams'[s].st = "open"
              /\ LimbLeq(streams'[s].end_time, I64(streams[s].started[1]))
      ]_vars

\* C7: a login that reads an active user row of a classroom that is no exam
\* classroom is admitted, whatever exam_start, exam_end and time_limit hold,
\* and writes no user row; an events request that reads such a classroom is
\* answered BadRequest (400) and leaves no stream.
C7_NonExamInert ==
    [][ /\ \A k \in TaskIds :
              ( GateReads(k) /\ ~ClassroomRead(k).is_exam
                /\ RowRead(k).active ) =>
                  /\ After(k).pc = "done" /\ After(k).err = NoError
                  /\ users' = users
        /\ \A s \in StreamIds :
              ( /\ streams[s].st = "user" /\ streams'[s] # streams[s]
                /\ HasClassroom(classrooms, streams[s].cid)
                /\ ~classrooms[streams[s].cid].is_exam ) =>
                  /\ streams'[s] = NoStream
                  /\ last'.op = "events"
                  /\ last'.err = BadRequest("Not an exam classroom")
                  /\ last'.status = 400 ]_vars

\* a login is admitted after the end of the window of a classroom that is
\* no exam classroom, and stamps nothing
C7_Witness ==
    /\ Answered("login") /\ last.err = NoError /\ last.uid # 0
    /\ ~classrooms[last.cid].is_exam
    /\ IsSome(classrooms[last.cid].exam_start)
    /\ IsSome(classrooms[last.cid].exam_end)
    /\ last.t > classrooms[last.cid].exam_end[1]
    /\ IsNone(users[last.uid].exam_started_at)

\* C15: the second SELECT of classroom_events opens a stream only when the
\* classroom it reads is an exam classroom and the user row the first SELECT
\* read has exam_started_at set, and answers an error and leaves no stream
\* otherwise; every stream counts from a timestamp that a login stored no
\* later than the stream was opened.
C15_OpenOnlyWhenStarted ==
    /\ [][ \A s \in StreamIds :
              ( streams[s].st = "user" /\ streams'[s] # streams[s] ) =>
                IF /\ HasClassroom(classrooms, streams[s].cid)
                   /\ classrooms[streams[s].cid].is_exam
                   /\ IsSome(streams[s].started)
                THEN streams'[s].st = "open" \/ last'.pc = "panicked"
                ELSE /\ streams'[s] = NoStream
                     /\ last'.op = "events" /\ last'.status \in { 400, 404 }
         ]_vars
    /\ [](\A s \in StreamIds :
            streams[s].st \in { "open", "yielded", "closed", "dropped" } =>
              /\ IsSome(streams[s].started)
              /\ streams[s].started[1] <= streams[s].opened)

\* a stream is open for a user who logged in before it was opened
C15_Witness ==
    \E s \in StreamIds :
        /\ streams[s].st = "open"
        /\ streams[s].started[1] < streams[s].opened
        /\ users[1].exam_started_at = streams[s].started

\* stream s has got past its request
Opened(s) == streams[s].st \in { "open", "yielded", "closed", "dropped" }

\* C24: the streams opened for one user have the same deadline; a step of
\* one stream (a poll, its event, its end, its drop) changes no other
\* stream, and each stream holds its own event.
C24_StreamsIndependent ==
    /\ [](\A s, x \in StreamIds :
            ( /\ Opened(s) /\ Opened(x)
              /\ streams[s].cid = streams[x].cid
              /\ streams[s].npm = streams[x].npm ) =>
                streams[s].end_time = streams[x].end_time)
    /\ [][ \A s, x \in StreamIds :
              ( s # x /\ streams'[s] # streams[s] ) =>
                  streams'[x] = streams[x] ]_vars

\* C25: no step of classroom_events (either SELECT of the request, a refused
\* or panicking request, a poll, the event, the end, the drop) changes a
\* row of classrooms, users or accounts.
C25_NotifierWritesNothing ==
    [][ ( streams' # streams \/ last'.op = "events" ) => UNCHANGED store ]_vars

\* a stream has emitted and the user's row is as the request read it
C25_Witness ==
    \E s \in StreamIds :
        /\ streams[s].st = "yielded" /\ Len(streams[s].events) = 1
        /\ streams[s].opened > streams[s].started[1]
        /\ users[1].exam_started_at = streams[s].started
        /\ users[1].active /\ users[1].code = "p"

\* C26: the deadline of a stream is the one computed when it was opened: no
\* step changes it while the stream is open, and a poll emits exactly when
\* the clock has reached it, whatever the store holds by then.
C26_DeadlineComputedOnce ==
    [][ \A s \in StreamIds :
          streams[s].st = "open" =>
            /\ streams'[s].end_time = streams[s].end_time
            /\ ( streams'[s] # streams[s] /\ streams'[s].st # "dropped" ) =>
                  ( Len(streams'[s].events) = 1
                      <=> Reached(streams[s].end_time, now) ) ]_vars

\* a stream opened in a one-minute exam has emitted at its deadline although
\* the classroom, and with it the user's row, was deleted after it was
\* opened
C26_Witness ==
    \E s \in StreamIds :
        /\ Len(streams[s].events) = 1
        /\ streams[s].limit = I64(1)
        /\ streams[s].events[1].at >= streams[s].started[1] + SecsPerMinute
        /\ ~HasClassroom(classrooms, 1)
        /\ ~HasUser(users, 1)

\* C27: a disconnect ends the stream at once, without an error: the stream
\* emits nothing in it (nothing at all when it comes before the deadline),
\* its timer is gone with it, and a dropped stream never changes again.
C27_DropCancels ==
    [][ \A s \in StreamIds :
          /\ ( streams[s].st = "open" /\ streams'[s].st = "dropped" ) =>
                /\ streams'[s].events = << >>
                /\ streams'[s].wake = 0
                /\ last' = NoRequest
          /\ streams[s].st = "dropped" => streams'[s] = streams[s] ]_vars

\* a stream of a one-minute exam was dropped before its deadline, after a
\* poll, and the clock has moved on
C27_Witness ==
    \E s \in StreamIds :
        /\ streams[s].st = "dropped" /\ streams[s].events = << >>
        /\ streams[s].limit = I64(1)
        /\ ~Reached(streams[s].end_time, now)
        /\ now > streams[s].opened
====
